---- MODULE Spec2Model ----
(***************************************************************************)
(* Verification model of the budget-bounded orchestration engine of        *)
(* Compare-Agent: the tool-calling loop GlmClient.call                      *)
(* (backend/api/glm_client.py), the research fan-out research_products and  *)
(* the rank synthesizer generate_comparison_payload                         *)
(* (backend/agent/steps.py), and the workflow                               *)
(* ProductComparisonAgent.compare_products (backend/agent/orchestrator.py). *)
(*                                                                         *)
(* Each component has its own specification over the same variables:       *)
(*   SpecCall       one GlmClient.call conversation                        *)
(*   SpecCallFair   the same, with the event loop's progress               *)
(*   SpecResearch   research_products over a list of candidates            *)
(*   SpecSynthesis  generate_comparison_payload over a research list       *)
(*   Spec           compare_products, request after request                *)
(***************************************************************************)
EXTENDS Integers, Sequences, FiniteSets, TLC

(***************************************************************************)
(* Bounds of the exploration.                                              *)
(***************************************************************************)
MaxSearches == 3
MaxToolCalls == 2
MaxUsage == 1
MaxCandidates == 2
MaxConcurrency == 2
MaxRuns == 2
MaxRankings == 2
MaxRequests == 2

(***************************************************************************)
(* Program constants.                                                      *)
(***************************************************************************)
DefaultToolIterations == 6
b_search_budget_per_agent == 1
max_api_calls_per_comparison == 8

Max(a, b) == IF a >= b THEN a ELSE b
Min(a, b) == IF a <= b THEN a ELSE b

(***************************************************************************)
(* State of one GlmClient.call conversation.                               *)
(*   call_pc            position of the coroutine: "idle" (not started),   *)
(*                      "post" (top of the for loop, before _post),        *)
(*                      "tools" (awaiting the gathered tool tasks),        *)
(*                      "returned", "raised"                               *)
(*   call_exit          which return statement was taken                   *)
(*   messages           the messages appended to the transcript since the  *)
(*                      last provider request (the transcript's tail); a   *)
(*                      tool-role message names in tool_call the tool call *)
(*                      it answers, by its place in the response, which    *)
(*                      stands for the id the provider gave the call       *)
(*   task_entries       one entry per tool call of the response in hand:   *)
(*                      status is "pending", "ok" or "exc", finished the   *)
(*                      rank in which the task completed, 0 while pending  *)
(*   total_search_count the count the call returns; the provider's usage   *)
(*                      figures are explored while it stays within         *)
(*                      max_searches + MaxUsage                            *)
(*   requests_sent      number of _post invocations of this conversation   *)
(*   search_executed    number of times _execute_tool_call ran a search    *)
(*                      (glm_executing_web_search), counted up to          *)
(*                      max_searches + 1, one more than any budget allows  *)
(***************************************************************************)
VARIABLES call_pc, call_exit, max_searches, iteration, searches_used,
          total_search_count, usage_reported_searches, task_entries,
          messages, requests_sent, search_executed

callVars == <<call_pc, call_exit, max_searches, iteration, searches_used,
              total_search_count, usage_reported_searches, task_entries,
              messages, requests_sent, search_executed>>

(***************************************************************************)
(* State of research_products.                                             *)
(*   research_pc        "idle", "running" (workers gathered), "returned",  *)
(*                      "cancelled" (CancelledError left research_products)*)
(*   products           the candidates handed in: candidate i has product  *)
(*                      id i, products is their number                     *)
(*   worker_pc          position of worker(candidate): "start",            *)
(*                      "waiting" (at async with semaphore), "live"        *)
(*                      (awaiting _run_product_research), "storing"        *)
(*                      (awaiting _store_cached_research), "done",         *)
(*                      "cancelled"                                        *)
(*   semaphore          the value of asyncio.Semaphore                     *)
(*   successes, failures, cache_hits, total_searches   the closure's lists *)
(*                      and counters                                       *)
(*   worker_searches    the local "searches" of worker(candidate): 0 until *)
(*                      _run_product_research has returned its count       *)
(*   searches_consumed  the searches the workers' conversations made with  *)
(*                      the provider, whether or not they were reported    *)
(*   research_outcome   the StepOutcome returned                           *)
(*   product_cache      the payloads stored under product:{id}:{today},    *)
(*                      as a function from product id                      *)
(*   research_runs      number of research_products invocations so far     *)
(***************************************************************************)
VARIABLES research_pc, products, use_cache, cache_enabled,
          extraction_max_concurrency, worker_pc, semaphore, successes,
          failures, cache_hits, total_searches, worker_searches,
          searches_consumed, research_outcome, product_cache, research_runs

researchVars == <<research_pc, products, use_cache, cache_enabled,
                  extraction_max_concurrency, worker_pc, semaphore, successes,
                  failures, cache_hits, total_searches, worker_searches,
                  searches_consumed, research_outcome, product_cache,
                  research_runs>>

(***************************************************************************)
(* State of generate_comparison_payload.                                   *)
(*   synth_pc           "idle", "calling" (awaiting glm_client.call with   *)
(*                      max_searches=0), "returned", "raised"              *)
(*   research           the ResearchProduct list handed in                 *)
(*   rankings           payload["rankings"] of the provider's answer       *)
(*   ordered_products   the DisplayProduct list built                      *)
(*   matched_entries    for each DisplayProduct, the ranking entry it was  *)
(*                      built for (DisplayProduct has no rank field)       *)
(*   synth_outcome      "none", "ok" or the exception raised               *)
(***************************************************************************)
VARIABLES synth_pc, research, rankings, ordered_products, matched_entries,
          synth_outcome

synthVars == <<synth_pc, research, rankings, ordered_products, matched_entries,
               synth_outcome>>

(***************************************************************************)
(* State of GlmClient._post, one chat-completion request.                  *)
(*   glm_max_retries    settings.glm_max_retries (GLM_MAX_RETRIES)         *)
(*   post_pc            "idle", "sending" (awaiting the HTTP response),    *)
(*                      "backoff" (tenacity sleeping before the next       *)
(*                      attempt), "returned", "raised"                     *)
(*   post_attempts      what each attempt made so far ended in             *)
(*   post_wait          the sleep before the next attempt, in half seconds *)
(*   post_error         "none" or the exception _post raised               *)
(***************************************************************************)
VARIABLES glm_max_retries, post_pc, post_attempts, post_wait, post_error

postVars == <<glm_max_retries, post_pc, post_attempts, post_wait, post_error>>

(***************************************************************************)
(* State of _extract_price_cents, applied to one research answer.          *)
(*   price_pc           "idle", "parsing", "returned", "raised"            *)
(*   price_payload      the "price" and "price_display" entries of the     *)
(*                      answer, each [kind, value]: an "int"; a "float" or *)
(*                      a "string" holding a decimal number, value in      *)
(*                      hundredths; a "text" string without a digit; a     *)
(*                      "long_digits" string of more than 308 digits; the  *)
(*                      floats "nan" and "inf"; "null", "bool", "list"; or *)
(*                      "missing" when the key is absent                   *)
(*   price_cents        the cents returned, 0 before                       *)
(***************************************************************************)
VARIABLES price_pc, price_payload, price_cents

priceVars == <<price_pc, price_payload, price_cents>>

(***************************************************************************)
(* State of the image resolution in _run_product_research, for one answer. *)
(*   image_pc           "idle", "resolving", "resolved", "raised"          *)
(*   image_case         what the sources hold: the image_url of the answer *)
(*                      (payload), the Open Graph image of the product     *)
(*                      page (og), settings.image_search_enabled, and what *)
(*                      the image search conversation ends in (search)     *)
(*   image_tried        the sources consulted, in order                    *)
(*   image_url          the image_url of the extraction: a URL is the      *)
(*                      sequence of the hosts it names, the proxy in front *)
(*                      of the address it fetches                          *)
(*   image_search_steps what the resolution added to search_steps          *)
(***************************************************************************)
VARIABLES image_pc, image_case, image_tried, image_url, image_search_steps

imageVars == <<image_pc, image_case, image_tried, image_url, image_search_steps>>

(***************************************************************************)
(* State of the two computations of a comparison key.                      *)
(*   key_pc             "idle", "requested", "stored" (compare_products    *)
(*                      wrote its entry), "invalidated" (the admin         *)
(*                      endpoint deleted its key)                          *)
(*   key_request        the category and constraints of the request, each  *)
(*                      a sequence of characters; constraints may be None  *)
(*   key_stored         the key compare_products reads and writes          *)
(*   key_invalidated    the key admin_invalidate_query_cache deletes       *)
(*   key_cache          the comparison keys that hold an entry             *)
(***************************************************************************)
VARIABLES key_pc, key_request, key_stored, key_invalidated, key_cache

keyVars == <<key_pc, key_request, key_stored, key_invalidated, key_cache>>

(***************************************************************************)
(* State of ProductComparisonAgent.compare_products.                       *)
(*   workflow_pc        "idle", "cache_lookup" (awaiting the comparison    *)
(*                      cache), "metrics_lookup" (glm_discovery awaiting   *)
(*                      the metrics cache), "discovery_call" (glm_discovery*)
(*                      awaiting glm_client.call), "returned", "raised"    *)
(*   request            the CompareRequest                                 *)
(*   progress_callback  "None", or "given" when the caller supplied one    *)
(*   a1_search_budget   settings.a1_search_budget (A1_SEARCH_BUDGET)       *)
(*   api_calls          the cumulative call counter                        *)
(*   workflow_error     "none" or the exception compare_products raised    *)
(*   workflow_response  the ComparisonResponse returned, if any            *)
(*   progress_events    the progress values progress_callback received     *)
(*   discovery_reply    the answer glm_discovery parsed or took from the   *)
(*                      metrics cache ("cached", with the constraints of   *)
(*                      the discovery that produced the entry, which the   *)
(*                      stored payload itself does not carry), "none"      *)
(*                      before                                             *)
(*   comparison_cache, metrics_cache   the entries under comparison:{hash} *)
(*                      and metrics:{category}, as functions from key;     *)
(*                      the kind of an entry says what a reader finds:     *)
(*                      a payload of the expected shape ("response",       *)
(*                      "metrics"), JSON that fails validation             *)
(*                      ("invalid_schema"), or no JSON ("undecodable")     *)
(*   requests_made      number of compare_products invocations so far      *)
(*   http_layer         "none", or the HTTP handler that answered:         *)
(*                      "routes" (api/routes.py) or "endpoints"            *)
(*                      (infrastructure/endpoints.py)                      *)
(*   http_status        the status code the handler answered with, 0       *)
(*                      before                                             *)
(***************************************************************************)
VARIABLES workflow_pc, request, progress_callback, a1_search_budget, api_calls,
          workflow_error, workflow_response, progress_events, discovery_reply,
          comparison_cache, metrics_cache, requests_made,
          http_layer, http_status

workflowVars == <<workflow_pc, request, progress_callback, a1_search_budget,
                  api_calls, workflow_error, workflow_response, progress_events,
                  discovery_reply,
                  comparison_cache, metrics_cache, requests_made,
                  http_layer, http_status>>

vars == <<callVars, researchVars, synthVars, workflowVars, postVars, priceVars, imageVars, keyVars>>

NoRequest == [category |-> "", constraints |-> "", use_cache |-> FALSE]
NoResponse == [cached_result |-> FALSE, api_calls |-> 0, present |-> FALSE]
NoReply == [kind |-> "none", products |-> 0]

workflow_idle ==
    /\ workflow_pc = "idle"
    /\ request = NoRequest
    /\ progress_callback = "None"
    /\ a1_search_budget = 0
    /\ api_calls = 0
    /\ workflow_error = "none"
    /\ workflow_response = NoResponse
    /\ progress_events = <<>>
    /\ discovery_reply = NoReply
    /\ comparison_cache = <<>>
    /\ metrics_cache = <<>>
    /\ requests_made = 0
    /\ http_layer = "none"
    /\ http_status = 0

NoPrice == [kind |-> "missing", value |-> 0]

NoImageCase == [payload |-> "missing", og |-> "none", enabled |-> FALSE,
                search |-> "raises"]

image_idle ==
    /\ image_pc = "idle"
    /\ image_case = NoImageCase
    /\ image_tried = <<>>
    /\ image_url = <<>>
    /\ image_search_steps = 0

NoKeyRequest == [category |-> <<>>, constraints |-> <<>>]

key_idle ==
    /\ key_pc = "idle"
    /\ key_request = NoKeyRequest
    /\ key_stored = <<>>
    /\ key_invalidated = <<>>
    /\ key_cache = {}

post_idle ==
    /\ glm_max_retries = 0
    /\ post_pc = "idle"
    /\ post_attempts = <<>>
    /\ post_wait = 0
    /\ post_error = "none"

price_idle ==
    /\ price_pc = "idle"
    /\ price_payload = [price |-> NoPrice, price_display |-> NoPrice]
    /\ price_cents = 0

synth_idle ==
    /\ synth_pc = "idle"
    /\ research = <<>>
    /\ rankings = <<>>
    /\ ordered_products = <<>>
    /\ matched_entries = <<>>
    /\ synth_outcome = "none"

NoOutcome == [data |-> <<>>, api_calls |-> 0, used_cache |-> FALSE]

research_idle ==
    /\ research_pc = "idle"
    /\ products = 0
    /\ use_cache = FALSE
    /\ cache_enabled = TRUE
    /\ extraction_max_concurrency = 1
    /\ worker_pc = <<>>
    /\ semaphore = 0
    /\ successes = <<>>
    /\ failures = <<>>
    /\ cache_hits = 0
    /\ total_searches = 0
    /\ worker_searches = <<>>
    /\ searches_consumed = 0
    /\ research_outcome = NoOutcome
    /\ product_cache = <<>>
    /\ research_runs = 0

(***************************************************************************)
(* Tool calls a provider response can carry.  "web_search" is a search     *)
(* call (type or function name web_search), "web_fetch" any tool call that *)
(* is not a search (a fetch or an unsupported tool: both are run by        *)
(* _execute_tool_call and consume no budget).                              *)
(***************************************************************************)
ToolKinds == {"web_search", "web_fetch"}

\* The values of max_searches a conversation is entered with: disabled, the
\* research default of 1, and the largest budget explored.
SearchBudgets == {0, 1, MaxSearches}

RECURSIVE SeqsUpTo(_, _)
SeqsUpTo(S, n) ==
    IF n = 0 THEN {<<>>}
    ELSE LET shorter == SeqsUpTo(S, n - 1)
         IN shorter \cup {Append(s, x) : s \in shorter, x \in S}

\* What _post can hand back to the loop: it raises, or a response body.
ProviderResponses ==
    [kind : {"error"}, usage : {0}, tool_calls : {<<>>}]
    \cup [kind : {"no_choices"}, usage : 0..MaxUsage, tool_calls : {<<>>}]
    \cup [kind : {"message"}, usage : 0..MaxUsage,
          tool_calls : SeqsUpTo(ToolKinds, MaxToolCalls)]

\* _extract_search_steps: the search count the response's usage reports.
_extract_search_steps(response) == response.usage

\* max_tool_iterations = max(6, max_searches * 3 if max_searches else 6)
max_tool_iterations_plus(ms) ==
    Max(DefaultToolIterations + 1, IF ms # 0 THEN ms * 3 ELSE DefaultToolIterations)

max_tool_iterations(ms) ==
    Max(DefaultToolIterations, IF ms # 0 THEN ms * 3 ELSE DefaultToolIterations)

\* is_search_call of the dispatch loop; _execute_tool_call classifies alike.
is_search_call(tool_call) == tool_call = "web_search"

\* The test "remaining_budget is not None and remaining_budget <= 0".
budget_exhausted_off_by_one(remaining_budget) == remaining_budget < 0

budget_exhausted(remaining_budget) == remaining_budget <= 0

(***************************************************************************)
(* The dispatch loop over tool_calls: one task entry per tool call, in     *)
(* order.  immediate marks the task created on _immediate_result, every    *)
(* other task runs _execute_tool_call.                                     *)
(***************************************************************************)
RECURSIVE dispatch_tool_calls(_, _, _)
dispatch_tool_calls(tool_calls, remaining_budget, ms) ==
    IF tool_calls = <<>> THEN <<>>
    ELSE LET tool_call == Head(tool_calls)
             budgeted  == is_search_call(tool_call) /\ ms > 0
             immediate == budgeted /\ budget_exhausted(remaining_budget)
             consumes  == budgeted /\ ~immediate
         IN <<[tool_call       |-> tool_call,
               is_search_call  |-> is_search_call(tool_call),
               consumes_budget |-> consumes,
               immediate       |-> immediate,
               status          |-> "pending",
               finished        |-> 0]>>
            \o dispatch_tool_calls(Tail(tool_calls),
                                   IF consumes THEN remaining_budget - 1
                                   ELSE remaining_budget,
                                   ms)

CountWhere(seq, P(_)) == Cardinality({i \in DOMAIN seq : P(seq[i])})

consumes_budget_of(entry) == entry.consumes_budget

\* The tool-role message appended for one gathered task entry.
tool_message(i, entry) ==
    [role |-> "tool", tool_call |-> i,
     content |-> IF entry.immediate THEN "budget_exhausted"
                 ELSE IF entry.status = "exc" THEN "exception"
                 ELSE "result"]

\* How many of the gathered tasks are done.
finished_count(entries) == Cardinality({i \in DOMAIN entries : entries[i].finished > 0})

\* The tool-role messages in the order the tasks completed in.
gathered_messages_as_completed(entries) ==
    [k \in DOMAIN entries |->
        LET i == CHOOSE i \in DOMAIN entries : entries[i].finished = k
        IN  tool_message(i, entries[i])]

RECURSIVE messages_from(_, _)
messages_from(entries, i) ==
    IF i > Len(entries) THEN <<>>
    ELSE (IF entries[i].status = "exc" THEN <<>> ELSE <<tool_message(i, entries[i])>>)
            \o messages_from(entries, i + 1)

\* The tool-role messages of the tasks that did not raise.
gathered_messages_without_failures(entries) == messages_from(entries, 1)

\* The loop over zip(task_entries, task_results): gather hands the results
\* back in the order of the tasks, and one tool-role message is appended
\* for each.
gathered_messages(entries) ==
    [i \in DOMAIN entries |-> tool_message(i, entries[i])]

\* The reminder appended after the tool results when max_searches > 0.
reminder_message(ms, used) ==
    [role |-> "assistant", tool_call |-> 0,
     content |-> IF Max(ms - used, 0) > 0 THEN "reminder_remaining"
                 ELSE "reminder_exhausted"]

\* A conversation runs on its own, or for the discovery step of a workflow,
\* whose state it leaves alone.
CallFrame ==
    /\ workflow_pc \in {"idle", "discovery_call"}
    /\ UNCHANGED workflowVars

(***************************************************************************)
(* GlmClient.call, entered with max_searches = ms.                         *)
(***************************************************************************)
call_enter(ms) ==
    /\ call_pc' = "post"
    /\ call_exit' = "none"
    /\ max_searches' = ms
    /\ iteration' = 0
    /\ searches_used' = 0
    /\ total_search_count' = 0
    /\ usage_reported_searches' = FALSE
    /\ task_entries' = <<>>
    /\ messages' = <<>>
    /\ requests_sent' = 0
    /\ search_executed' = 0

call_idle ==
    /\ call_pc = "idle"
    /\ call_exit = "none"
    /\ max_searches = 0
    /\ iteration = 0
    /\ searches_used = 0
    /\ total_search_count = 0
    /\ usage_reported_searches = FALSE
    /\ task_entries = <<>>
    /\ messages = <<>>
    /\ requests_sent = 0
    /\ search_executed = 0

\* One pass of the loop head: _post, then the response is classified and,
\* when it carries tool calls, one task per tool call is created.
\* Responses that report usage are explored while the total they have
\* reported stays within MaxUsage.
CallPost ==
    /\ call_pc = "post"
    /\ iteration < max_tool_iterations(max_searches)
    /\ \E response \in ProviderResponses :
        LET search_count == _extract_search_steps(response)
            entries == dispatch_tool_calls(response.tool_calls,
                                           max_searches - searches_used,
                                           max_searches)
        IN /\ search_count > 0 => total_search_count + search_count <= MaxUsage
           /\ requests_sent' = requests_sent + 1
           /\ IF response.kind = "error"
              THEN /\ call_pc' = "raised"
                   /\ call_exit' = "post_raised"
                   /\ UNCHANGED <<total_search_count, usage_reported_searches,
                                  task_entries, messages>>
              ELSE /\ total_search_count' = total_search_count + search_count
                   /\ usage_reported_searches' = (search_count > 0)
                   /\ IF response.kind = "no_choices"
                      THEN /\ call_pc' = "returned"
                           /\ call_exit' = "no_choices"
                           /\ UNCHANGED <<task_entries, messages>>
                      ELSE IF response.tool_calls = <<>>
                      THEN /\ call_pc' = "returned"
                           /\ call_exit' = "final"
                           /\ UNCHANGED <<task_entries, messages>>
                      ELSE /\ call_pc' = "tools"
                           /\ call_exit' = "none"
                           /\ task_entries' = entries
                           /\ messages' = <<[role |-> "assistant", tool_call |-> 0,
                                             content |-> "tool_calls"]>>
    /\ UNCHANGED <<max_searches, iteration, searches_used, search_executed>>
    /\ UNCHANGED <<researchVars, synthVars, postVars, priceVars, imageVars, keyVars>>
    /\ CallFrame

\* One gathered task runs to completion; a task runs for as long as it is
\* pending, wherever the frame that created it is.  A task on _immediate_result only
\* returns its content; a task on _execute_tool_call runs its tool and
\* returns a JSON string ("ok"), or raises before the tool is run, as when
\* the arguments are not a JSON object ("exc": gather collects the exception).
\* search_executed counts the searches that ran up to a ceiling, beyond
\* which the count no longer matters to what is observed.
tool_task(ceiling) ==
    /\ \E i \in DOMAIN task_entries :
        /\ task_entries[i].status = "pending"
        /\ \E outcome \in (IF task_entries[i].immediate THEN {"ok"} ELSE {"ok", "exc"}) :
            /\ task_entries' = [task_entries EXCEPT
                                    ![i].status = outcome,
                                    ![i].finished = finished_count(task_entries) + 1]
            /\ search_executed' =
                  IF /\ ~task_entries[i].immediate
                     /\ task_entries[i].tool_call = "web_search"
                     /\ outcome = "ok"
                  THEN Min(search_executed + 1, ceiling)
                  ELSE search_executed
    /\ UNCHANGED <<call_pc, call_exit, max_searches, iteration, searches_used,
                   total_search_count, usage_reported_searches, messages,
                   requests_sent>>
    /\ UNCHANGED <<researchVars, synthVars, postVars, priceVars, imageVars, keyVars>>
    /\ UNCHANGED workflowVars

\* Counted up to one past the search budget of the conversation.
CallToolTask == tool_task(max_searches + 1)

\* gather has every result: the results are folded into the counters and the
\* transcript in task order, the reminder is appended, and the loop either
\* goes round again or falls out at the iteration ceiling.
CallGather ==
    /\ call_pc = "tools"
    /\ \A i \in DOMAIN task_entries : task_entries[i].status # "pending"
    /\ LET consumed == CountWhere(task_entries, consumes_budget_of)
           used == searches_used + consumed
           tool_messages == gathered_messages(task_entries)
           reminder == IF max_searches > 0
                       THEN <<reminder_message(max_searches, used)>> ELSE <<>>
       IN /\ searches_used' = used
          /\ total_search_count' = IF usage_reported_searches THEN total_search_count
                                   ELSE total_search_count + consumed
          /\ messages' = messages \o tool_messages \o reminder
    /\ iteration' = iteration + 1
    /\ IF iteration + 1 < max_tool_iterations(max_searches)
       THEN call_pc' = "post" /\ call_exit' = "none"
       ELSE call_pc' = "returned" /\ call_exit' = "ceiling"
    /\ task_entries' = <<>>
    /\ UNCHANGED <<max_searches, usage_reported_searches, requests_sent,
                   search_executed>>
    /\ UNCHANGED <<researchVars, synthVars, postVars, priceVars, imageVars, keyVars>>
    /\ CallFrame

CallStep == CallPost \/ CallToolTask \/ CallGather

(***************************************************************************)
(* SpecCall: GlmClient.call invoked once, for every max_searches in range. *)
(***************************************************************************)
InitCall ==
    /\ research_idle
    /\ synth_idle
    /\ post_idle
    /\ price_idle
    /\ image_idle
    /\ key_idle
    /\ workflow_idle
    /\ max_searches \in SearchBudgets
    /\ call_pc = "post"
    /\ call_exit = "none"
    /\ iteration = 0
    /\ searches_used = 0
    /\ total_search_count = 0
    /\ usage_reported_searches = FALSE
    /\ task_entries = <<>>
    /\ messages = <<>>
    /\ requests_sent = 0
    /\ search_executed = 0

NextCall == CallPost \/ CallToolTask \/ CallGather

SpecCall == InitCall /\ [][NextCall]_vars

SpecCallFair == SpecCall /\ WF_vars(NextCall)

(***************************************************************************)
(* Properties of GlmClient.call.                                           *)
(***************************************************************************)
CallTerminated == call_pc \in {"returned", "raised"}

\* C3: a conversation entered with max_searches = 0 never runs a web
\* search: no search-type tool call of a provider response reaches the
\* search in _execute_tool_call.
C3_NoSearchWhenDisabled ==
    (call_pc # "idle" /\ max_searches = 0) => search_executed = 0

\* C4: a conversation sends at most max(6, 3 * max_searches) chat-completion
\* requests; when that many responses all carried tool calls the call
\* returns the last response (it does not raise); and the call always
\* terminates.
C4_IterationCeiling ==
    /\ [](call_pc # "idle" =>
            LET ceiling == IF 3 * max_searches > 6 THEN 3 * max_searches ELSE 6
            IN /\ requests_sent <= ceiling
               /\ iteration <= ceiling
               /\ (iteration = ceiling =>
                     call_pc = "returned" /\ call_exit = "ceiling"))
    /\ <>CallTerminated

C4_Witness ==
    /\ call_pc = "returned"
    /\ call_exit = "ceiling"
    /\ max_searches = MaxSearches
    /\ requests_sent = 3 * MaxSearches
    /\ requests_sent > 6

SearchCallsBefore(i) ==
    Cardinality({j \in DOMAIN task_entries : j < i /\ task_entries[j].is_search_call})

\* C5: with max_searches = n > 0 the searches dispatched over the whole
\* conversation never exceed n; a search call requested when the remaining
\* budget is zero is answered by the local "Search budget exhausted" task
\* and never executed, and every other search call takes one unit of budget.
C5_SearchBudgetRespected ==
    (call_pc # "idle" /\ max_searches > 0) =>
        LET remaining == max_searches - searches_used
        IN /\ search_executed <= max_searches
           /\ searches_used + CountWhere(task_entries, consumes_budget_of) <= max_searches
           /\ search_executed <= searches_used + CountWhere(task_entries, consumes_budget_of)
           /\ \A i \in DOMAIN task_entries :
                IF task_entries[i].is_search_call
                THEN /\ task_entries[i].immediate = (SearchCallsBefore(i) >= remaining)
                     /\ task_entries[i].consumes_budget = (SearchCallsBefore(i) < remaining)
                ELSE ~task_entries[i].immediate /\ ~task_entries[i].consumes_budget

C5_Witness ==
    /\ call_pc = "tools"
    /\ max_searches = MaxSearches
    /\ search_executed = MaxSearches
    /\ \E i \in DOMAIN task_entries :
          task_entries[i].immediate /\ task_entries[i].status = "ok"

(***************************************************************************)
(* research_products: one worker per candidate, gathered.                  *)
(***************************************************************************)
Candidates == 1..products

\* asyncio.Semaphore(settings.extraction_max_concurrency)
semaphore_initial_plus(limit) == limit + 1

semaphore_initial(limit) == limit

\* Semaphore.acquire returns at once only while the value is positive.
semaphore_free(value) == value > 0

\* A worker that leaves the section holding on to its permit.
semaphore_release_leaked(value) == value

\* Leaving "async with semaphore": the permit goes back, however the block
\* was left.
semaphore_release(value) == value + 1

\* The contents a research answer can have: the provider need not answer
\* twice alike for one product.
ResearchPayloads == {"research_a", "research_b"}

\* CandidateProduct.product_id of candidate i, as discovery assigns it.
candidate_product_id(i) == "p" \o ToString(i)

\* _generate_product_id stands in for a candidate without an id.
GeneratedId == "p1_generated"

\* _run_product_research line 482: the id the research is filed under.
research_product_id_generated(product_id) == GeneratedId

research_product_id(product_id) ==
    IF product_id # "" THEN product_id ELSE GeneratedId

\* "title = payload.get('title') or product.name": answer research_a
\* carries no title, answer research_b carries one of its own.
research_title(payload, i) ==
    IF payload = "research_b" THEN "retitled" ELSE "candidate " \o ToString(i)

\* The ResearchProduct _run_product_research builds for candidate i.
_run_product_research(i, payload) ==
    [candidate_id |-> research_product_id(candidate_product_id(i)),
     extraction_id |-> research_product_id(candidate_product_id(i)),
     title |-> research_title(payload, i)]

\* The payload _store_cached_research writes for a ResearchProduct.
cached_payload(payload, research_product) ==
    [content |-> payload,
     product_id |-> research_product.extraction_id,
     title |-> research_product.title]

\* The ResearchProduct _load_cached_research builds for candidate i.
_load_cached_research(i, cached) ==
    [candidate_id |-> candidate_product_id(i),
     extraction_id |-> cached.product_id,
     title |-> cached.title]

\* RedisCache.set_json: the payload replaces whatever the key held.
set_json(cache, key, payload) ==
    [k \in DOMAIN cache \cup {key} |-> IF k = key THEN payload ELSE cache[k]]

\* The except branch of the worker: the candidate joins failures.
record_failure_dropped(failed, candidate) == failed

record_failure(failed, candidate) == Append(failed, candidate)

\* RedisCache.get_json under the product key: a hit needs the cache enabled.
product_cache_hit(candidate) == cache_enabled /\ candidate \in DOMAIN product_cache

\* research_products is entered: an empty list returns at once, otherwise
\* the semaphore and the closure state are set up and the workers gathered.
\* Without use_cache a worker has no await before "async with semaphore".
ResearchEnter ==
    /\ research_pc \in {"idle", "returned", "cancelled"}
    /\ research_runs < MaxRuns
    /\ research_runs' = research_runs + 1
    /\ \E n \in 0..MaxCandidates, uc \in BOOLEAN :
        /\ products' = n
        /\ use_cache' = uc
        /\ worker_pc' = [i \in 1..n |-> IF uc THEN "start" ELSE "waiting"]
        /\ worker_searches' = [i \in 1..n |-> 0]
        /\ research_pc' = IF n = 0 THEN "returned" ELSE "running"
    /\ semaphore' = semaphore_initial(extraction_max_concurrency)
    /\ successes' = <<>>
    /\ failures' = <<>>
    /\ cache_hits' = 0
    /\ total_searches' = 0
    /\ searches_consumed' = 0
    /\ research_outcome' = NoOutcome
    /\ UNCHANGED <<cache_enabled, extraction_max_concurrency, product_cache>>
    /\ UNCHANGED <<callVars, synthVars, workflowVars, postVars, priceVars, imageVars, keyVars>>

\* A worker that goes on to the semaphore with its cached product appended.
worker_after_lookup_no_return(hit) == "waiting"

\* Where the worker is after the lookup: the branch of a hit ends in
\* "return", a miss falls through to "async with semaphore".
worker_after_lookup(hit) == IF hit THEN "done" ELSE "waiting"

\* worker(candidate) up to "async with semaphore", with use_cache: the
\* product cache is read first and a hit ends the worker.
WorkerLookup(i) ==
    /\ research_pc = "running"
    /\ worker_pc[i] = "start"
    /\ IF use_cache /\ product_cache_hit(i)
       THEN /\ cache_hits' = cache_hits + 1
            /\ successes' = Append(successes,
                    [product |-> i, from_cache |-> TRUE,
                     research |-> _load_cached_research(i, product_cache[i])])
            /\ worker_pc' = [worker_pc EXCEPT ![i] = worker_after_lookup(TRUE)]
       ELSE /\ worker_pc' = [worker_pc EXCEPT ![i] = worker_after_lookup(FALSE)]
            /\ UNCHANGED <<cache_hits, successes>>
    /\ UNCHANGED <<research_pc, products, use_cache, cache_enabled,
                   extraction_max_concurrency, semaphore, failures,
                   total_searches, searches_consumed, worker_searches,
                   research_outcome, product_cache, research_runs>>
    /\ UNCHANGED <<callVars, synthVars, workflowVars, postVars, priceVars, imageVars, keyVars>>

\* The worker enters "async with semaphore".
WorkerAcquire(i) ==
    /\ research_pc = "running"
    /\ worker_pc[i] = "waiting"
    /\ semaphore_free(semaphore)
    /\ semaphore' = semaphore - 1
    /\ worker_pc' = [worker_pc EXCEPT ![i] = "live"]
    /\ UNCHANGED <<research_pc, products, use_cache, cache_enabled,
                   extraction_max_concurrency, successes, failures, cache_hits,
                   total_searches, searches_consumed, worker_searches,
                   research_outcome, product_cache, research_runs>>
    /\ UNCHANGED <<callVars, synthVars, workflowVars, postVars, priceVars, imageVars, keyVars>>

\* "total_searches += searches" for a worker whose research came back.
reported_searches(total, searches) == total + searches

\* A worker that goes on to _store_cached_research after its research
\* raised.
worker_after_research_store_always(raised) == "storing"

\* Where the worker is after "await _run_product_research": an exception
\* jumps over _store_cached_research to the except branch, after which the
\* worker is done.
worker_after_research(raised) == IF raised THEN "done" ELSE "storing"

\* _run_product_research comes back, its conversation having made some
\* searches: with a product and its search count, or with an exception,
\* which the worker records before it leaves the semaphore.
WorkerResearch(i) ==
    /\ research_pc = "running"
    /\ worker_pc[i] = "live"
    /\ \E searches \in 0..b_search_budget_per_agent :
        /\ searches_consumed' = searches_consumed + searches
        /\ \/ /\ worker_searches' = [worker_searches EXCEPT ![i] = searches]
              /\ total_searches' = reported_searches(total_searches, searches)
              /\ worker_pc' = [worker_pc EXCEPT ![i] = worker_after_research(FALSE)]
              /\ UNCHANGED <<failures, semaphore>>
           \/ /\ failures' = record_failure(failures, i)
              /\ semaphore' = semaphore_release(semaphore)
              /\ worker_pc' = [worker_pc EXCEPT ![i] = worker_after_research(TRUE)]
              /\ UNCHANGED <<total_searches, worker_searches>>
    /\ UNCHANGED <<research_pc, products, use_cache, cache_enabled,
                   extraction_max_concurrency, successes, cache_hits,
                   research_outcome, product_cache, research_runs>>
    /\ UNCHANGED <<callVars, synthVars, workflowVars, postVars, priceVars, imageVars, keyVars>>

\* _store_cached_research comes back: the research is under the product's
\* key (when the cache is enabled), the product joins successes, and the
\* worker leaves the semaphore.
WorkerStore(i) ==
    /\ research_pc = "running"
    /\ worker_pc[i] = "storing"
    /\ \E payload \in ResearchPayloads :
        LET research_product == _run_product_research(i, payload)
        IN /\ product_cache' =
                 IF cache_enabled
                 THEN set_json(product_cache, i, cached_payload(payload, research_product))
                 ELSE product_cache
           /\ successes' = Append(successes,
                   [product |-> i, from_cache |-> FALSE, research |-> research_product])
    /\ semaphore' = semaphore_release(semaphore)
    /\ worker_pc' = [worker_pc EXCEPT ![i] = "done"]
    /\ UNCHANGED <<research_pc, products, use_cache, cache_enabled,
                   extraction_max_concurrency, failures, cache_hits,
                   total_searches, searches_consumed, worker_searches, research_outcome, research_runs>>
    /\ UNCHANGED <<callVars, synthVars, workflowVars, postVars, priceVars, imageVars, keyVars>>

\* gather has every worker: the StepOutcome is built and returned.
ResearchReturn ==
    /\ research_pc = "running"
    /\ \A i \in Candidates : worker_pc[i] = "done"
    /\ research_outcome' = [data |-> successes,
                            api_calls |-> total_searches + Len(failures),
                            used_cache |-> cache_hits > 0]
    /\ research_pc' = "returned"
    /\ UNCHANGED <<products, use_cache, cache_enabled, extraction_max_concurrency,
                   worker_pc, semaphore, successes, failures, cache_hits,
                   total_searches, searches_consumed, worker_searches, product_cache, research_runs>>
    /\ UNCHANGED <<callVars, synthVars, workflowVars, postVars, priceVars, imageVars, keyVars>>

WorkerStep ==
    \E i \in Candidates :
        WorkerLookup(i) \/ WorkerAcquire(i) \/ WorkerResearch(i) \/ WorkerStore(i)

(***************************************************************************)
(* SpecResearch: research_products invoked run after run on one cache, for *)
(* every concurrency limit in range.                                       *)
(***************************************************************************)
InitResearch ==
    /\ call_idle
    /\ synth_idle
    /\ post_idle
    /\ price_idle
    /\ image_idle
    /\ key_idle
    /\ workflow_idle
    /\ research_pc = "idle"
    /\ products = 0
    /\ use_cache = FALSE
    /\ cache_enabled \in BOOLEAN
    /\ extraction_max_concurrency \in 1..MaxConcurrency
    /\ worker_pc = <<>>
    /\ semaphore = 0
    /\ successes = <<>>
    /\ failures = <<>>
    /\ cache_hits = 0
    /\ total_searches = 0
    /\ worker_searches = <<>>
    /\ searches_consumed = 0
    /\ research_outcome = NoOutcome
    /\ product_cache = <<>>
    /\ research_runs = 0

NextResearch == ResearchEnter \/ WorkerStep \/ ResearchReturn

SpecResearch == InitResearch /\ [][NextResearch]_vars

\* The workers between acquiring and releasing the semaphore.
InLiveSection == {i \in DOMAIN worker_pc : worker_pc[i] \in {"live", "storing"}}

(***************************************************************************)
(* SpecResearchCancel: research_products awaited by a caller that cancels  *)
(* it, as asyncio.timeout does when it fires.  The gather is cancelled and *)
(* cancels every worker that is not done; the worker's await raises        *)
(* CancelledError, which "except Exception" does not catch, "async with"   *)
(* gives the semaphore back, and CancelledError leaves research_products.  *)
(***************************************************************************)
ResearchCancel ==
    /\ research_pc = "running"
    /\ research_pc' = "cancelled"
    /\ worker_pc' = [i \in DOMAIN worker_pc |->
                        IF worker_pc[i] = "done" THEN "done" ELSE "cancelled"]
    /\ semaphore' = semaphore + Cardinality(InLiveSection)
    /\ UNCHANGED <<products, use_cache, cache_enabled, extraction_max_concurrency,
                   successes, failures, cache_hits, total_searches,
                   searches_consumed, worker_searches, research_outcome,
                   product_cache, research_runs>>
    /\ UNCHANGED <<callVars, synthVars, workflowVars, postVars, priceVars, imageVars, keyVars>>

NextResearchCancel == NextResearch \/ ResearchCancel

SpecResearchCancel == InitResearch /\ [][NextResearchCancel]_vars

(***************************************************************************)
(* SpecResearchFair: one run of research_products on a cache that earlier  *)
(* runs filled, on an event loop that runs every task that can run: a      *)
(* worker whose await has its result, or that waits for a semaphore with a *)
(* permit, goes on, and the gather returns once every worker is done.      *)
(* Whether the caller cancels is left open.                                *)
(***************************************************************************)
\* The caches earlier runs leave behind: the research of some candidates.
FilledCaches ==
    {[i \in S |-> cached_payload("research_a",
                                 _run_product_research(i, "research_a"))] :
        S \in SUBSET (1..MaxCandidates)}

InitResearchFair ==
    /\ call_idle
    /\ synth_idle
    /\ post_idle
    /\ price_idle
    /\ image_idle
    /\ key_idle
    /\ workflow_idle
    /\ research_pc = "idle"
    /\ products = 0
    /\ use_cache = FALSE
    /\ cache_enabled \in BOOLEAN
    /\ extraction_max_concurrency \in 1..MaxConcurrency
    /\ worker_pc = <<>>
    /\ semaphore = 0
    /\ successes = <<>>
    /\ failures = <<>>
    /\ cache_hits = 0
    /\ total_searches = 0
    /\ worker_searches = <<>>
    /\ searches_consumed = 0
    /\ research_outcome = NoOutcome
    /\ product_cache \in FilledCaches
    /\ (product_cache # <<>> => cache_enabled)
    /\ research_runs = 0

ResearchFirstEnter == research_runs = 0 /\ ResearchEnter

NextResearchFair ==
    ResearchFirstEnter \/ WorkerStep \/ ResearchReturn \/ ResearchCancel

SpecResearchFair ==
    /\ InitResearchFair
    /\ [][NextResearchFair]_vars
    /\ WF_vars(WorkerStep)
    /\ WF_vars(ResearchReturn)

(***************************************************************************)
(* Properties of research_products.                                        *)
(***************************************************************************)
\* C6: the workers inside the live research section, between acquiring and
\* releasing the semaphore, never number more than
\* extraction_max_concurrency.
C6_BoundedConcurrency ==
    Cardinality(InLiveSection) <= extraction_max_concurrency

C6_Witness ==
    /\ research_pc = "running"
    /\ Cardinality(InLiveSection) = extraction_max_concurrency
    /\ \E i \in DOMAIN worker_pc : worker_pc[i] = "waiting"
    /\ \E i \in DOMAIN worker_pc : worker_pc[i] = "storing"

\* How often candidate i occurs in the success list and in the failure list.
TimesListed(i) ==
    Cardinality({k \in DOMAIN successes : successes[k].product = i})
        + Cardinality({k \in DOMAIN failures : failures[k] = i})

\* C15: a worker's exception fails no other worker and not the stage: when
\* research_products returns, every candidate is in exactly one of the
\* success list and the failure list, and the outcome carries the
\* successes.
C15_WorkersIndependent ==
    research_pc = "returned" =>
        /\ \A i \in Candidates : TimesListed(i) = 1
        /\ Len(successes) + Len(failures) = products
        /\ research_outcome.data = successes

\* A run returned with a failed candidate next to a researched one.
C15_Witness ==
    /\ research_pc = "returned"
    /\ Len(failures) >= 1
    /\ \E k \in DOMAIN successes : ~successes[k].from_cache

\* C19: a payload written under a product key is never replaced by a
\* different payload.
C19_CacheEntriesImmutable ==
    [][\A k \in DOMAIN product_cache :
          k \in DOMAIN product_cache' /\ product_cache'[k] = product_cache[k]]_vars

(***************************************************************************)
(* generate_comparison_payload and _match_research_product.                *)
(***************************************************************************)
\* str.lower() and str.strip() on the titles that occur.
str_lower(title) ==
    CASE title = "Alpha" -> "alpha"
      [] title = "Beta" -> "beta"
      [] OTHER -> title

str_strip(title) ==
    CASE title = " alpha " -> "alpha"
      [] OTHER -> title

\* title.lower().strip()
normalize_title(title) == str_strip(str_lower(title))

\* ResearchProduct values: candidate.product_id ("" for None, as for a
\* product loaded from the cache for a candidate without id),
\* extraction.product_id and title.
ResearchAlpha == [candidate_id |-> "p1", extraction_id |-> "p1", title |-> "Alpha"]
ResearchBeta == [candidate_id |-> "p2", extraction_id |-> "p2", title |-> "Beta"]
ResearchGamma == [candidate_id |-> "", extraction_id |-> "p3", title |-> "gamma"]

ResearchItems == {ResearchAlpha, ResearchBeta, ResearchGamma}

\* The research lists handed in: every arrangement of some of the products,
\* the empty list included.
ResearchLists ==
    {list \in SeqsUpTo(ResearchItems, Cardinality(ResearchItems)) :
        \A i, j \in DOMAIN list : i # j => list[i] # list[j]}

\* How a ranking entry names its product: by a known id, by an unknown id,
\* by the id of one product and the title of another, by title only (in
\* another case and padded), or by nothing that matches.
RankingKeys ==
    {[product_id |-> "p1", product_title |-> ""],
     [product_id |-> "p2", product_title |-> "Alpha"],
     [product_id |-> "p3", product_title |-> ""],
     [product_id |-> "p9", product_title |-> ""],
     [product_id |-> "p9", product_title |-> " alpha "],
     [product_id |-> "", product_title |-> "beta"],
     [product_id |-> "", product_title |-> "delta"]}

RankingEntries ==
    {[product_id |-> k.product_id, product_title |-> k.product_title, rank |-> r] :
        k \in RankingKeys, r \in 1..MaxRankings}

\* What the conversation hands back to the synthesis step.
SynthesisResponses ==
    {[kind |-> k, rankings |-> <<>>] :
        k \in {"call_raised", "no_choices", "no_message", "empty", "invalid_json"}}
    \cup {[kind |-> "payload", rankings |-> r] : r \in SeqsUpTo(RankingEntries, MaxRankings)}

\* The first index of seq that satisfies P, 0 when none does.
FirstIndex(seq, P(_)) ==
    IF \E i \in DOMAIN seq : P(seq[i])
    THEN CHOOSE i \in DOMAIN seq : P(seq[i]) /\ \A j \in 1..(i - 1) : ~P(seq[j])
    ELSE 0

\* _match_research_product: the index of the product matched, 0 for None.
match_by_title_first(rankings_entry, research_products) ==
    LET by_id(product) == \/ product.candidate_id = rankings_entry.product_id
                          \/ product.extraction_id = rankings_entry.product_id
        by_title(product) == normalize_title(product.title)
                                 = normalize_title(rankings_entry.product_title)
        id_hit == IF rankings_entry.product_id # ""
                  THEN FirstIndex(research_products, by_id) ELSE 0
        title_hit == IF rankings_entry.product_title # ""
                     THEN FirstIndex(research_products, by_title) ELSE 0
    IN IF title_hit # 0 THEN title_hit ELSE id_hit

_match_research_product(rankings_entry, research_products) ==
    LET by_id(product) == \/ product.candidate_id = rankings_entry.product_id
                          \/ product.extraction_id = rankings_entry.product_id
        by_title(product) == normalize_title(product.title)
                                 = normalize_title(rankings_entry.product_title)
        id_hit == IF rankings_entry.product_id # ""
                  THEN FirstIndex(research_products, by_id) ELSE 0
        title_hit == IF rankings_entry.product_title # ""
                     THEN FirstIndex(research_products, by_title) ELSE 0
    IN IF id_hit # 0 THEN id_hit ELSE title_hit

\* The loop over rankings: the ranking entries that match a product, in the
\* order of the response.
RECURSIVE matched_rankings(_, _)
matched_rankings(entries, research_products) ==
    IF entries = <<>> THEN <<>>
    ELSE LET rest == matched_rankings(Tail(entries), research_products)
         IN IF _match_research_product(Head(entries), research_products) = 0
            THEN rest
            ELSE <<Head(entries)>> \o rest

\* The DisplayProduct built for a matched ranking entry.
display_product(rankings_entry, research_products) ==
    LET product == research_products[_match_research_product(rankings_entry, research_products)]
    IN [product_id |-> product.extraction_id, name |-> product.title]

\* generate_comparison_payload is entered; an empty research list raises.
SynthEnter ==
    /\ synth_pc = "idle"
    /\ \E list \in ResearchLists :
        /\ research' = list
        /\ IF list = <<>>
           THEN synth_pc' = "raised" /\ synth_outcome' = "ValueError"
           ELSE synth_pc' = "calling" /\ synth_outcome' = "none"
    /\ UNCHANGED <<rankings, ordered_products, matched_entries>>
    /\ UNCHANGED <<callVars, researchVars, workflowVars, postVars, priceVars, imageVars, keyVars>>

\* The conversation comes back: the answer is validated, the rankings are
\* matched to the research list and the payload is built.
SynthResponse ==
    /\ synth_pc = "calling"
    /\ \E response \in SynthesisResponses :
        IF response.kind = "call_raised"
        THEN /\ synth_pc' = "raised"
             /\ synth_outcome' = "GlmClientError"
             /\ UNCHANGED <<rankings, ordered_products, matched_entries>>
        ELSE IF response.kind # "payload"
        THEN /\ synth_pc' = "raised"
             /\ synth_outcome' = "ValueError"
             /\ UNCHANGED <<rankings, ordered_products, matched_entries>>
        ELSE LET matched == matched_rankings(response.rankings, research)
             IN /\ rankings' = response.rankings
                /\ matched_entries' = matched
                /\ ordered_products' =
                      [i \in DOMAIN matched |-> display_product(matched[i], research)]
                /\ IF matched = <<>>
                   THEN synth_pc' = "raised" /\ synth_outcome' = "ValueError"
                   ELSE synth_pc' = "returned" /\ synth_outcome' = "ok"
    /\ UNCHANGED research
    /\ UNCHANGED <<callVars, researchVars, workflowVars, postVars, priceVars, imageVars, keyVars>>

(***************************************************************************)
(* SpecSynthesis: generate_comparison_payload on every research list and   *)
(* every answer in range.                                                  *)
(***************************************************************************)
InitSynthesis ==
    /\ call_idle
    /\ research_idle
    /\ synth_idle
    /\ post_idle
    /\ price_idle
    /\ image_idle
    /\ key_idle
    /\ workflow_idle

NextSynthesis == SynthEnter \/ SynthResponse

SpecSynthesis == InitSynthesis /\ [][NextSynthesis]_vars

(***************************************************************************)
(* Properties of generate_comparison_payload.                              *)
(***************************************************************************)
\* C10: the DisplayProduct list returned is in ascending order of the rank
\* of the ranking entries it was built from, rank 1 first.
C10_OrderedByRank ==
    synth_pc = "returned" =>
        \A i, j \in DOMAIN matched_entries :
            i < j => matched_entries[i].rank <= matched_entries[j].rank

\* C11: the DisplayProduct list returned never holds two entries with the
\* same product_id, whatever the ranking response.
C11_NoDuplicateIds ==
    synth_pc = "returned" =>
        \A i, j \in DOMAIN ordered_products :
            i # j => ordered_products[i].product_id # ordered_products[j].product_id

\* The products an entry names by id, and by title under the equality eq.
IdMatches(entry, list) ==
    {i \in DOMAIN list :
        /\ entry.product_id # ""
        /\ \/ list[i].candidate_id = entry.product_id
           \/ list[i].extraction_id = entry.product_id}

TitleMatches(entry, list, eq(_, _)) ==
    {i \in DOMAIN list : entry.product_title # "" /\ eq(list[i].title, entry.product_title)}

Least(S) == CHOOSE i \in S : \A j \in S : i <= j

\* The product an entry stands for: the first product with the entry's id,
\* and only when there is none the first product with the entry's title;
\* 0 when neither exists.
ExpectedMatch(entry, list, eq(_, _)) ==
    IF IdMatches(entry, list) # {} THEN Least(IdMatches(entry, list))
    ELSE IF TitleMatches(entry, list, eq) # {} THEN Least(TitleMatches(entry, list, eq))
    ELSE 0

\* Titles equal but for case; titles equal but for case and surrounding
\* whitespace.
SameTitleIgnoringCase(a, b) == str_lower(a) = str_lower(b)
SameTitleIgnoringCaseAndPadding(a, b) == str_strip(str_lower(a)) = str_strip(str_lower(b))

\* The DisplayProducts (id and name) the ranking entries stand for under eq,
\* in the order of the response, unmatched entries left out.
ExpectedProducts(entries, list, eq(_, _)) ==
    LET kept == {i \in DOMAIN entries : ExpectedMatch(entries[i], list, eq) # 0}
        nth(k) == CHOOSE i \in kept : Cardinality({j \in kept : j < i}) = k - 1
        product(k) == list[ExpectedMatch(entries[nth(k)], list, eq)]
    IN [k \in 1..Cardinality(kept) |->
           [product_id |-> product(k).extraction_id, name |-> product(k).title]]

\* C12: a ranking entry is matched by product_id first (candidate id or
\* extraction id), whatever the titles; only when no product has its id
\* is it matched by title, compared without regard to case and to
\* surrounding whitespace; an entry that matches neither yields no
\* DisplayProduct.
C12_MatchByIdThenTitle ==
    synth_pc = "returned" =>
        ordered_products = ExpectedProducts(rankings, research, SameTitleIgnoringCaseAndPadding)

\* C12 as stated: the title is compared without regard to case only.
C12_MatchByIdThenExactTitle ==
    synth_pc = "returned" =>
        ordered_products = ExpectedProducts(rankings, research, SameTitleIgnoringCase)

\* An entry with the id of Beta and the title of Alpha gave Beta, and an
\* entry that matches nothing was dropped.
C12_Witness ==
    /\ synth_pc = "returned"
    /\ Len(rankings) = 2
    /\ rankings[1].product_id = "p2" /\ rankings[1].product_title = "Alpha"
    /\ rankings[2].product_id = "" /\ rankings[2].product_title = "delta"
    /\ research = <<ResearchAlpha, ResearchBeta>>
    /\ Len(ordered_products) = 1
    /\ ordered_products[1].name = "Beta"

(***************************************************************************)
(* ProductComparisonAgent.compare_products with glm_discovery.             *)
(*                                                                         *)
(* compare_products binds the name research_products itself                *)
(* (orchestrator.py line 129: research_products = research_outcome.data),  *)
(* which makes the name local to the whole function: the call              *)
(* research_products(...) at line 113 reads that local before it is bound  *)
(* and raises UnboundLocalError.  Nothing of lines 114-207 (research,      *)
(* synthesis, the response, the comparison cache write) can therefore run. *)
(*                                                                         *)
(* glm_discovery builds every candidate as                                 *)
(* CandidateProduct(discovery_method="glm_a1") (steps.py line 328), a      *)
(* value the Literal of CandidateProduct.discovery_method                  *)
(* (schemas.py lines 35-42) does not admit, so pydantic raises a           *)
(* ValidationError (a ValueError) for the first named product.             *)
(***************************************************************************)
Categories == {"Laptops"}
Constraints == {"", "under $1000"}

Requests == [category : Categories, constraints : Constraints, use_cache : BOOLEAN]

\* str.lower().strip() and _normalize_category on the categories that occur.
lower_strip(category) == IF category = "Laptops" THEN "laptops" ELSE category

_normalize_category(category) == lower_strip(category)

\* "comparison:" + _hash_query(category.lower().strip(), constraints): the
\* key is one-to-one in the pair hashed.
comparison_cache_key(category, constraints) == <<lower_strip(category), constraints>>

\* "metrics:" + _normalize_category(category)
metrics_cache_key(category) == _normalize_category(category)

\* The Literal of CandidateProduct.discovery_method; None is admitted too.
DiscoveryMethods ==
    {"ranking_site", "best_sellers", "amazon_top_rated",
     "reddit_recommendations", "forum_recommendations", "sonar_a1"}

candidate_product_valid(discovery_method) ==
    discovery_method = "None" \/ discovery_method \in DiscoveryMethods

\* The discovery_method glm_discovery gives every candidate.
glm_discovery_method == "glm_a1"

\* _ensure_budget raises when this holds.
budget_exceeded(calls) == calls > max_api_calls_per_comparison

\* What glm_discovery can find in the message it parses: products is the
\* number of product entries that carry a name.
DiscoveryReplies ==
    [kind : {"no_message", "empty", "invalid_json", "not_success", "bad_metrics"},
     products : {0}]
    \cup [kind : {"products"}, products : 0..MaxCandidates]

\* The locals of a conversation whose frame is gone; entries are the tasks
\* it leaves behind.
call_unwind(entries) ==
    /\ call_pc' = "idle"
    /\ call_exit' = "none"
    /\ max_searches' = 0
    /\ iteration' = 0
    /\ searches_used' = 0
    /\ total_search_count' = 0
    /\ usage_reported_searches' = FALSE
    /\ task_entries' = entries
    /\ messages' = <<>>
    /\ requests_sent' = 0
    /\ search_executed' = 0

\* The locals of a conversation that is over.
call_clear == call_unwind(<<>>)

\* compare_products raises exc.
workflow_raise(exc) ==
    /\ workflow_pc' = "raised"
    /\ workflow_error' = exc

\* RedisCache.get_json: what the caller can get for a key.  None comes back
\* when the cache is disabled, the key is absent, the read fails
\* (get_raw swallows the error) or the value is no JSON; otherwise the
\* decoded value.
NoneFound == [kind |-> "None"]

get_json(cache, key) ==
    {NoneFound}
    \cup (IF cache_enabled /\ key \in DOMAIN cache /\ cache[key].kind # "undecodable"
          THEN {cache[key]} ELSE {})

\* The events of the cache-hit replay.
replayed_progress_short == <<33, 100>>

replayed_progress == <<33, 66, 100>>

\* "if progress_callback: progress_callback(event)" for each event of more,
\* in turn: without a callback nothing happens; a callback takes the event
\* or raises, and its exception ends the sequence.
ProgressOutcomes(events, more) ==
    IF progress_callback = "None"
    THEN {[events |-> events, raised |-> FALSE]}
    ELSE {[events |-> events \o SubSeq(more, 1, k), raised |-> k < Len(more)] :
            k \in 0..Len(more)}

\* compare_products from the return of glm_discovery (lines 90-113): the
\* outcome's calls are added and checked, progress is notified, and the
\* candidates go to line 113.
after_discovery(outcome_calls, candidates) ==
    /\ api_calls' = api_calls + outcome_calls
    /\ IF budget_exceeded(api_calls + outcome_calls)
       THEN /\ workflow_raise("WorkflowBudgetExceeded")
            /\ UNCHANGED progress_events
       ELSE \E outcome \in ProgressOutcomes(progress_events, <<33>>) :
            /\ progress_events' = outcome.events
            /\ IF outcome.raised
               THEN workflow_raise("CallbackError")
               ELSE IF candidates = 0
               THEN workflow_raise("ValueError")
               ELSE workflow_raise("UnboundLocalError")
    /\ UNCHANGED workflow_response

\* compare_products is entered, with or without a progress callback; without
\* use_cache it goes straight into glm_discovery and its conversation.
WorkflowEnter ==
    /\ workflow_pc \in {"idle", "returned", "raised"}
    /\ requests_made < MaxRequests
    /\ requests_made' = requests_made + 1
    /\ api_calls' = 0
    /\ workflow_error' = "none"
    /\ workflow_response' = NoResponse
    /\ progress_events' = <<>>
    /\ discovery_reply' = NoReply
    /\ progress_callback' \in {"None", "given"}
    /\ \E req \in Requests :
        /\ request' = req
        /\ IF req.use_cache
           THEN workflow_pc' = "cache_lookup" /\ call_clear
           ELSE workflow_pc' = "discovery_call" /\ call_enter(a1_search_budget)
    /\ UNCHANGED <<a1_search_budget, comparison_cache, metrics_cache, http_layer,
                   http_status>>
    /\ UNCHANGED <<researchVars, synthVars, postVars, priceVars, imageVars, keyVars>>

\* cache.get_json(comparison_cache_key) comes back.  A truthy value is
\* validated as a ComparisonResponse (a value of another shape raises
\* ValidationError), cached_result is set, the three progress events are
\* replayed and the response returned; None enters the timeout block and
\* glm_discovery.
comparison_lookup(store) ==
    /\ workflow_pc = "cache_lookup"
    /\ \E found \in get_json(store,
                             comparison_cache_key(request.category, request.constraints)) :
        IF found.kind = "response"
        THEN \E outcome \in ProgressOutcomes(<<>>, replayed_progress) :
             /\ progress_events' = outcome.events
             /\ IF outcome.raised
                THEN /\ workflow_raise("CallbackError")
                     /\ UNCHANGED workflow_response
                ELSE /\ workflow_pc' = "returned"
                     /\ workflow_response' = [cached_result |-> TRUE,
                                              api_calls |-> found.api_calls,
                                              present |-> TRUE]
                     /\ UNCHANGED workflow_error
        ELSE IF found.kind = "invalid_schema"
        THEN /\ workflow_raise("ValidationError")
             /\ UNCHANGED <<workflow_response, progress_events>>
        ELSE /\ workflow_pc' = "metrics_lookup"
             /\ UNCHANGED <<workflow_error, workflow_response, progress_events>>
    /\ UNCHANGED <<http_layer, http_status, request, progress_callback, a1_search_budget, api_calls,
                   discovery_reply, comparison_cache, metrics_cache, requests_made>>
    /\ UNCHANGED <<callVars, researchVars, synthVars, postVars, priceVars, imageVars, keyVars>>

WorkflowCacheLookup == comparison_lookup(comparison_cache)

\* glm_discovery: cache.get_json(metrics key) comes back.  A dict with
\* "metrics" is the step's outcome once MetricsResult and the cached
\* CandidateProducts validate (a dict they reject raises ValidationError);
\* anything else starts the conversation.
metrics_lookup(store) ==
    /\ workflow_pc = "metrics_lookup"
    /\ \E found \in get_json(store, metrics_cache_key(request.category)) :
        IF found.kind = "metrics"
        THEN /\ after_discovery(0, found.products)
             /\ discovery_reply' = [kind |-> "cached",
                                    products |-> found.products,
                                    written_for |-> found.written_for]
             /\ UNCHANGED callVars
        ELSE IF found.kind = "invalid_schema"
        THEN /\ workflow_raise("ValidationError")
             /\ UNCHANGED <<api_calls, workflow_response, progress_events,
                            discovery_reply>>
             /\ UNCHANGED callVars
        ELSE /\ workflow_pc' = "discovery_call"
             /\ call_enter(a1_search_budget)
             /\ UNCHANGED <<api_calls, workflow_error, workflow_response,
                            progress_events, discovery_reply>>
    /\ UNCHANGED <<http_layer, http_status, request, progress_callback, a1_search_budget,
                   comparison_cache, metrics_cache, requests_made>>
    /\ UNCHANGED <<researchVars, synthVars, postVars, priceVars, imageVars, keyVars>>

DiscoveryLookup == metrics_lookup(metrics_cache)

\* glm_discovery from the return of glm_client.call: the answer is
\* validated, the candidates are built, the metrics entry is written and
\* the outcome goes back to compare_products.
DiscoveryParse ==
    /\ workflow_pc = "discovery_call"
    /\ call_pc = "returned"
    /\ \E reply \in DiscoveryReplies :
        /\ call_exit = "no_choices" => reply.kind = "no_message"
        /\ discovery_reply' = reply
        /\ IF call_exit = "no_choices" \/ reply.kind # "products"
           THEN /\ workflow_raise("ValueError")
                /\ UNCHANGED <<api_calls, workflow_response, progress_events,
                               metrics_cache>>
           ELSE IF reply.products >= 1 /\ ~candidate_product_valid(glm_discovery_method)
           THEN /\ workflow_raise("ValidationError")
                /\ UNCHANGED <<api_calls, workflow_response, progress_events,
                               metrics_cache>>
           ELSE IF reply.products = 0
           THEN /\ workflow_raise("ValueError")
                /\ UNCHANGED <<api_calls, workflow_response, progress_events,
                               metrics_cache>>
           ELSE /\ metrics_cache' =
                      IF cache_enabled
                      THEN set_json(metrics_cache, metrics_cache_key(request.category),
                                    [kind |-> "metrics",
                                     products |-> reply.products,
                                     searches_used |-> total_search_count,
                                     written_for |-> request.constraints])
                      ELSE metrics_cache
                /\ after_discovery(1, reply.products)
    /\ call_clear
    /\ UNCHANGED <<http_layer, http_status, request, progress_callback, a1_search_budget, comparison_cache,
                   requests_made>>
    /\ UNCHANGED <<researchVars, synthVars, postVars, priceVars, imageVars, keyVars>>

\* glm_client.call raised: the exception leaves glm_discovery and
\* compare_products.
DiscoveryCallFailed ==
    /\ workflow_pc = "discovery_call"
    /\ call_pc = "raised"
    /\ workflow_raise("GlmClientError")
    /\ call_clear
    /\ UNCHANGED <<http_layer, http_status, request, progress_callback, a1_search_budget, api_calls,
                   workflow_response, progress_events, discovery_reply,
                   comparison_cache, metrics_cache, requests_made>>
    /\ UNCHANGED <<researchVars, synthVars, postVars, priceVars, imageVars, keyVars>>

\* Cancelling the gather of the tool-call tasks cancels every task that is
\* not done yet.
cancel_tasks_none(entries) == entries

cancel_tasks(entries) ==
    [i \in DOMAIN entries |->
        IF entries[i].status = "pending"
        THEN [entries[i] EXCEPT !.status = "cancelled"]
        ELSE entries[i]]

\* asyncio.timeout(workflow_timeout_seconds) fires while the workflow is
\* suspended inside the block: the task is cancelled at its await, which
\* is the metrics read, the provider request, or the gather of the
\* tool-call tasks; the frames unwind and compare_products raises
\* TimeoutError.
WorkflowTimeout ==
    /\ \/ workflow_pc = "metrics_lookup"
       \/ workflow_pc = "discovery_call" /\ call_pc \in {"post", "tools"}
    /\ workflow_raise("TimeoutError")
    /\ call_unwind(cancel_tasks(task_entries))
    /\ UNCHANGED <<http_layer, http_status, request, progress_callback, a1_search_budget, api_calls,
                   workflow_response, progress_events, discovery_reply,
                   comparison_cache, metrics_cache, requests_made>>
    /\ UNCHANGED <<researchVars, synthVars, postVars, priceVars, imageVars, keyVars>>

(***************************************************************************)
(* Spec: compare_products, request after request, on one cache that starts *)
(* empty and holds only what the program writes.  The discovery budget     *)
(* A1_SEARCH_BUDGET is explored disabled and at one search.                *)
(***************************************************************************)
Init ==
    /\ call_idle
    /\ research_idle
    /\ synth_idle
    /\ post_idle
    /\ price_idle
    /\ image_idle
    /\ key_idle
    /\ workflow_pc = "idle"
    /\ request = NoRequest
    /\ progress_callback = "None"
    /\ a1_search_budget \in {0, 1}
    /\ api_calls = 0
    /\ workflow_error = "none"
    /\ workflow_response = NoResponse
    /\ progress_events = <<>>
    /\ discovery_reply = NoReply
    /\ comparison_cache = <<>>
    /\ metrics_cache = <<>>
    /\ requests_made = 0
    /\ http_layer = "none"
    /\ http_status = 0

Next ==
    \/ WorkflowEnter
    \/ WorkflowCacheLookup
    \/ DiscoveryLookup
    \/ CallPost
    \/ CallToolTask
    \/ CallGather
    \/ DiscoveryParse
    \/ DiscoveryCallFailed
    \/ WorkflowTimeout

Spec == Init /\ [][Next]_vars

(***************************************************************************)
(* SpecSearches: one compare_products run, with the searches its           *)
(* conversation executes counted up to one past                            *)
(* max_api_calls_per_comparison.                                           *)
(***************************************************************************)
WorkflowFirstEnter == requests_made = 0 /\ WorkflowEnter

\* Counted up to one past the call budget of the comparison.
RunToolTask == tool_task(max_api_calls_per_comparison + 1)

NextSearches ==
    \/ WorkflowFirstEnter
    \/ WorkflowCacheLookup
    \/ DiscoveryLookup
    \/ CallPost
    \/ RunToolTask
    \/ CallGather
    \/ DiscoveryParse
    \/ DiscoveryCallFailed
    \/ WorkflowTimeout

SpecSearches == Init /\ [][NextSearches]_vars

(***************************************************************************)
(* SpecStore: compare_products on a Redis instance it shares with other    *)
(* writers (another deployment, an operator, TTL expiry).  What a read     *)
(* finds under a key is then not what this program wrote: nothing, a       *)
(* payload of the expected shape, JSON of another shape, or a value that   *)
(* is no JSON.                                                             *)
(***************************************************************************)
StoredComparisons ==
    {[kind |-> "response", api_calls |-> 3],
     [kind |-> "invalid_schema", api_calls |-> 0],
     [kind |-> "undecodable", api_calls |-> 0]}

StoredMetrics ==
    {[kind |-> "metrics", products |-> n, searches_used |-> 0,
      written_for |-> c] : n \in {0, 2}, c \in Constraints}
    \cup {[kind |-> k, products |-> 0, searches_used |-> 0, written_for |-> ""] :
            k \in {"invalid_schema", "undecodable"}}

\* Every assignment of payloads to some of the keys.
StoredCaches(keys, payloads) == UNION {[K -> payloads] : K \in SUBSET keys}

\* The comparison read on the shared instance.
SharedCacheLookup ==
    \E store \in StoredCaches({comparison_cache_key(request.category, request.constraints)},
                              StoredComparisons) :
        comparison_lookup(store)

\* The metrics read on the shared instance.
SharedDiscoveryLookup ==
    \E store \in StoredCaches({metrics_cache_key(request.category)}, StoredMetrics) :
        metrics_lookup(store)

NextStore ==
    \/ WorkflowEnter
    \/ SharedCacheLookup
    \/ SharedDiscoveryLookup
    \/ CallPost
    \/ CallToolTask
    \/ CallGather
    \/ DiscoveryParse
    \/ DiscoveryCallFailed
    \/ WorkflowTimeout

SpecStore == Init /\ [][NextStore]_vars

(***************************************************************************)
(* SpecBudget: the stage boundary of compare_products and the two HTTP     *)
(* handlers around it, as functions of their inputs.  A stage has returned *)
(* its outcome; the counter so far is any value that passed the earlier    *)
(* checks and the outcome reports up to MaxOutcomeCalls calls.             *)
(***************************************************************************)
MaxOutcomeCalls == 2

\* The classes of the exceptions that leave compare_products, each with
\* its base classes up to Exception.
exception_bases ==
    [WorkflowBudgetExceeded |-> {"WorkflowBudgetExceeded", "RuntimeError", "Exception"},
     ValueError             |-> {"ValueError", "Exception"},
     ValidationError        |-> {"ValidationError", "ValueError", "Exception"},
     UnboundLocalError      |-> {"UnboundLocalError", "NameError", "Exception"},
     TimeoutError           |-> {"TimeoutError", "OSError", "Exception"},
     GlmClientError         |-> {"GlmClientError", "RuntimeError", "Exception"},
     CallbackError          |-> {"CallbackError", "Exception"}]

isinstance(exc, cls) == cls \in exception_bases[exc]

\* What the rest of compare_products can raise once the check has passed.
OtherErrors == DOMAIN exception_bases \ {"WorkflowBudgetExceeded"}

\* _ensure_budget: the exception it raises, "none" when it returns.
budget_error_generic(calls) ==
    IF budget_exceeded(calls) THEN "ValueError" ELSE "none"

_ensure_budget(calls) ==
    IF budget_exceeded(calls) THEN "WorkflowBudgetExceeded" ELSE "none"

\* The except clauses of the two handlers, in the order they are written.
routes_handlers ==
    <<[cls |-> "WorkflowBudgetExceeded", status |-> 429],
      [cls |-> "ValueError", status |-> 400],
      [cls |-> "Exception", status |-> 500]>>

endpoints_handlers ==
    <<[cls |-> "WorkflowBudgetExceeded", status |-> 503],
      [cls |-> "ValueError", status |-> 400],
      [cls |-> "Exception", status |-> 500]>>

\* try/except: the first clause whose class the exception is an instance of.
handler_status(handlers, exc) ==
    LET matching == {i \in DOMAIN handlers : isinstance(exc, handlers[i].cls)}
        first == CHOOSE i \in matching : \A j \in matching : i <= j
    IN handlers[first].status

\* "api_calls += outcome.api_calls; self._ensure_budget(api_calls)", and
\* what follows: the budget error, or the rest of the workflow, which
\* returns or raises something else.
StageBoundary ==
    /\ workflow_pc = "stage_returned"
    /\ \E outcome_calls \in 0..MaxOutcomeCalls :
        /\ api_calls' = api_calls + outcome_calls
        /\ IF _ensure_budget(api_calls + outcome_calls) # "none"
           THEN workflow_raise(_ensure_budget(api_calls + outcome_calls))
           ELSE \/ workflow_pc' = "returned" /\ UNCHANGED workflow_error
                \/ \E exc \in OtherErrors : workflow_raise(exc)
    /\ UNCHANGED <<request, progress_callback, a1_search_budget, workflow_response,
                   progress_events, discovery_reply, comparison_cache, metrics_cache,
                   requests_made, http_layer, http_status>>
    /\ UNCHANGED <<callVars, researchVars, synthVars, postVars, priceVars, imageVars, keyVars>>

\* The handler named layer answers the request compare_products has ended.
http_respond(layer, handlers) ==
    /\ workflow_pc \in {"returned", "raised"}
    /\ http_layer = "none"
    /\ http_layer' = layer
    /\ http_status' = IF workflow_pc = "returned"
                      THEN 200
                      ELSE handler_status(handlers, workflow_error)
    /\ UNCHANGED <<workflow_pc, request, progress_callback, a1_search_budget,
                   api_calls, workflow_error, workflow_response, progress_events,
                   discovery_reply, comparison_cache, metrics_cache, requests_made>>
    /\ UNCHANGED <<callVars, researchVars, synthVars, postVars, priceVars, imageVars, keyVars>>

RoutesRespond == http_respond("routes", routes_handlers)

EndpointsRespond == http_respond("endpoints", endpoints_handlers)

InitBudget ==
    /\ call_idle
    /\ research_idle
    /\ synth_idle
    /\ post_idle
    /\ price_idle
    /\ image_idle
    /\ key_idle
    /\ workflow_pc = "stage_returned"
    /\ request = NoRequest
    /\ progress_callback = "None"
    /\ a1_search_budget = 0
    /\ api_calls \in 0..max_api_calls_per_comparison
    /\ workflow_error = "none"
    /\ workflow_response = NoResponse
    /\ progress_events = <<>>
    /\ discovery_reply = NoReply
    /\ comparison_cache = <<>>
    /\ metrics_cache = <<>>
    /\ requests_made = 0
    /\ http_layer = "none"
    /\ http_status = 0

NextBudget == StageBoundary \/ RoutesRespond \/ EndpointsRespond

SpecBudget == InitBudget /\ [][NextBudget]_vars

(***************************************************************************)
(* Properties of compare_products.                                         *)
(***************************************************************************)
\* C9: on a cache miss, a run whose discovery answer is valid and names at
\* least two candidates, within the call budget and the timeout, ends with
\* a ComparisonResponse: such a run does not raise, except for the
\* provider, the budget or the timeout.
C9_EndToEnd ==
    (/\ workflow_pc = "raised"
     /\ discovery_reply.kind = "products"
     /\ discovery_reply.products >= 2)
        => workflow_error \in {"GlmClientError", "WorkflowBudgetExceeded", "TimeoutError"}

\* C13: an exception raised by the progress callback never aborts
\* compare_products: no run ends with the callback's exception.
C13_CallbackNeverAborts ==
    workflow_pc = "raised" => workflow_error # "CallbackError"

\* C14: in a run that returns a response, a supplied progress callback has
\* received exactly discovery/33, research/66 and comparison/100, once each
\* and in that order.
C14_ProgressSequence ==
    (workflow_pc = "returned" /\ progress_callback = "given")
        => progress_events = <<33, 66, 100>>

\* A response served from the comparison cache, with a callback.
C14_Witness ==
    /\ workflow_pc = "returned"
    /\ progress_callback = "given"
    /\ workflow_response.present
    /\ workflow_response.cached_result
    /\ progress_events = <<33, 66, 100>>

TimedOut == workflow_pc = "raised" /\ workflow_error = "TimeoutError"

\* C17: when the workflow timeout has fired no task of the workflow is left
\* pending, and until the next request nothing is sent to the provider, no
\* tool is run and no cache entry is written.
C17_TimeoutCancelsTasks ==
    /\ [](TimedOut => \A i \in DOMAIN task_entries : task_entries[i].status # "pending")
    /\ [][TimedOut =>
            \/ requests_made' # requests_made
            \/ UNCHANGED <<requests_sent, search_executed, task_entries, worker_pc,
                           comparison_cache, metrics_cache, product_cache>>]_vars

\* The timeout fired while gather waited for two tool-call tasks, one of
\* them done and one still running.
C17_Witness ==
    /\ TimedOut
    /\ \E i \in DOMAIN task_entries : task_entries[i].status = "cancelled"
    /\ \E i \in DOMAIN task_entries : task_entries[i].status = "ok"

\* C18: a cache read never fails the workflow: a run raises ValidationError
\* only over a live discovery answer, never over what it read from the
\* cache.
C18_CacheReadNeverFatal ==
    (workflow_pc = "raised" /\ workflow_error = "ValidationError")
        => discovery_reply.kind = "products"

\* C20: a counter above the ceiling ends compare_products with
\* WorkflowBudgetExceeded, never with a ValueError; the handlers answer
\* WorkflowBudgetExceeded with 429 or 503 and a ValueError with 400, so the
\* two never get the same status.
C20_BudgetErrorDistinguished ==
    /\ (workflow_pc # "stage_returned" /\ budget_exceeded(api_calls))
          => /\ workflow_pc = "raised"
             /\ workflow_error = "WorkflowBudgetExceeded"
             /\ ~isinstance(workflow_error, "ValueError")
    /\ (http_layer # "none" /\ workflow_pc = "raised")
          => /\ workflow_error = "WorkflowBudgetExceeded" =>
                    http_status = (IF http_layer = "routes" THEN 429 ELSE 503)
             /\ isinstance(workflow_error, "ValueError") => http_status = 400
             /\ http_status \in {429, 503} => workflow_error = "WorkflowBudgetExceeded"

\* The counter went over the ceiling at the boundary and the handler in
\* endpoints.py answered.
C20_Witness ==
    /\ budget_exceeded(api_calls)
    /\ workflow_error = "WorkflowBudgetExceeded"
    /\ http_layer = "endpoints"
    /\ http_status = 503

\* The ResearchProduct list research_products hands over.
ResearchList == [k \in DOMAIN successes |-> successes[k].research]

\* C21: the DisplayProduct built for a researched product carries the
\* product_id of the candidate it was researched from, whether the research
\* was live or loaded from the product cache, whether the ranking names the
\* product by id or by title, and whatever title the research gave it.
C21_ProductIdPreserved ==
    \A k \in DOMAIN successes :
        LET candidate_id == candidate_product_id(successes[k].product)
            by_id == [product_id |-> candidate_id, product_title |-> ""]
            by_title == [product_id |-> "", product_title |-> successes[k].research.title]
        IN /\ successes[k].research.candidate_id = candidate_id
           /\ successes[k].research.extraction_id = candidate_id
           /\ display_product(by_id, ResearchList).product_id = candidate_id
           /\ display_product(by_title, <<successes[k].research>>).product_id = candidate_id

\* A run returned a product loaded from the cache and a product researched
\* live, both under a title the research chose.
C21_Witness ==
    /\ research_pc = "returned"
    /\ \E k \in DOMAIN successes :
          successes[k].from_cache /\ successes[k].research.title = "retitled"
    /\ \E k \in DOMAIN successes :
          ~successes[k].from_cache /\ successes[k].research.title = "retitled"

\* The sum of f over the set S of candidates.
RECURSIVE SumOver(_, _)
SumOver(S, f) ==
    IF S = {} THEN 0
    ELSE LET i == CHOOSE x \in S : TRUE IN f[i] + SumOver(S \ {i}, f)

FailedCandidates == {failures[k] : k \in DOMAIN failures}

\* What the outcome does count: the searches the workers reported plus one
\* for each failed worker; a worker served from the cache or failed
\* reports none.
ApiCallsOfReported ==
    research_pc = "returned" /\ products > 0 =>
        /\ research_outcome.api_calls
              = SumOver(Candidates, worker_searches) + Len(failures)
        /\ \A k \in DOMAIN successes :
              successes[k].from_cache => worker_searches[successes[k].product] = 0
        /\ \A i \in FailedCandidates : worker_searches[i] = 0

\* C24: api_calls of the outcome is the sum of the searches consumed by all
\* workers, those that failed included, plus one for each failed worker.
C24_ApiCallsCountConsumed ==
    research_pc = "returned" /\ products > 0 =>
        research_outcome.api_calls = searches_consumed + Len(failures)

\* C25: the list handed to synthesis is ordered by candidate id, whatever
\* order the workers completed in.
C25_OrderedByCandidate ==
    research_pc = "returned" =>
        \A j, k \in DOMAIN research_outcome.data :
            j < k => research_outcome.data[j].product < research_outcome.data[k].product

CancelledWorkers == {i \in DOMAIN worker_pc : worker_pc[i] = "cancelled"}

\* C26: when research workers were cancelled, the stage still ends with an
\* outcome, in which a cancelled worker is in neither the success list nor
\* the failure list and is counted apart.
C26_CancelledWorkersCounted ==
    CancelledWorkers # {} =>
        /\ \A i \in CancelledWorkers : TimesListed(i) = 0
        /\ research_pc = "returned"
        /\ research_outcome # NoOutcome

(***************************************************************************)
(* Price extraction: _parse_price_string, _normalize_numeric_price and     *)
(* _extract_price_cents.  A result of None is the kind "none"; an          *)
(* exception leaving the function is the kind "raise".                     *)
(***************************************************************************)
MaxPrice == 12

BoundaryPrices ==
    {999, 1000, 9998, 9999, 10000, 10001, 99999, 100000, 999999, 1000000, 1000001}

IntPrices == ((0 - 2)..MaxPrice) \cup BoundaryPrices

\* Decimal numbers, in hundredths: -1.00, 0, 0.01, 19.99, 99999.99,
\* 100000.00, 100000.49 and 100001.51.
DecimalPrices == {0 - 100, 0, 1, 1999, 9999999, 10000000, 10000049, 10000151}

PriceValues ==
    [kind : {"int"}, value : IntPrices]
        \cup [kind : {"float", "string"}, value : DecimalPrices]
        \cup [kind : {"text", "long_digits", "nan", "inf", "null", "bool", "list",
                      "missing"},
              value : {0}]

PricePayloads ==
    [price : PriceValues,
     price_display : {NoPrice, [kind |-> "string", value |-> 2500],
                      [kind |-> "text", value |-> 0]}]

RECURSIVE digits(_)
\* len(str(abs(value)))
digits(value) ==
    LET a == IF value < 0 THEN 0 - value ELSE value
    IN  IF a < 10 THEN 1 ELSE 1 + digits(a \div 10)

\* round(): to the nearest integer, a tie to the even one.
round_hundredths(h) ==
    LET q == h \div 100
        r == h % 100
    IN  IF r < 50 THEN q
        ELSE IF r > 50 THEN q + 1
        ELSE IF q % 2 = 0 THEN q ELSE q + 1

is_string(v) == v.kind \in {"string", "text", "long_digits"}

is_number(v) == v.kind \in {"int", "float", "nan", "inf", "bool"}

truthy(v) == v.kind \notin {"missing", "null"} /\ ~(v.kind \in {"int", "float"} /\ v.value = 0)

none_result == [kind |-> "none", value |-> 0]

raise_result == [kind |-> "raise", value |-> 0]

cents_result(c) == [kind |-> "cents", value |-> c]

_parse_price_string(raw) ==
    IF ~is_string(raw) THEN none_result
    ELSE IF raw.kind = "text" THEN none_result
    ELSE IF raw.kind = "long_digits" THEN raise_result
    ELSE IF raw.value <= 0 THEN none_result
    ELSE cents_result(raw.value)

_normalize_numeric_price(v) ==
    IF v.kind = "bool" THEN none_result
    ELSE IF v.kind \in {"nan", "inf"} THEN raise_result
    ELSE IF v.kind = "float"
    THEN IF v.value <= 0 THEN none_result
         ELSE IF v.value < 10000000 THEN cents_result(v.value)
         ELSE cents_result(round_hundredths(v.value))
    ELSE IF v.kind = "int"
    THEN IF v.value <= 0 THEN none_result
         ELSE IF v.value >= 1000000 THEN cents_result(v.value)
         ELSE IF digits(v.value) >= 5 THEN cents_result(v.value)
         ELSE cents_result(v.value * 100)
    ELSE none_result

price_sources(payload) ==
    (IF payload.price.kind # "missing" THEN <<payload.price>> ELSE <<>>)
        \o (IF truthy(payload.price_display) THEN <<payload.price_display>> ELSE <<>>)

RECURSIVE first_price(_, _)
\* One loop of _extract_price_cents over the sources: the first truthy
\* result returns, a raising source ends the function.
first_price(sources, numeric) ==
    IF sources = <<>> THEN none_result
    ELSE LET value == Head(sources)
             cents == IF numeric
                      THEN IF is_number(value)
                           THEN _normalize_numeric_price(value) ELSE none_result
                      ELSE IF is_string(value)
                           THEN _parse_price_string(value) ELSE none_result
         IN  IF cents.kind = "raise" THEN raise_result
             ELSE IF cents.kind = "cents" /\ cents.value # 0 THEN cents
             ELSE first_price(Tail(sources), numeric)

_extract_price_cents(payload) ==
    LET sources == price_sources(payload)
        parsed == first_price(sources, FALSE)
        numeric == first_price(sources, TRUE)
    IN  IF parsed.kind # "none" THEN parsed
        ELSE IF numeric.kind # "none" THEN numeric
        ELSE cents_result(0)

\* _run_product_research has the answer of the research conversation parsed.
PriceEnter ==
    /\ price_pc = "idle"
    /\ \E payload \in PricePayloads : price_payload' = payload
    /\ price_pc' = "parsing"
    /\ UNCHANGED price_cents
    /\ UNCHANGED <<callVars, researchVars, synthVars, workflowVars, postVars, imageVars, keyVars>>

\* price_cents, price_source = _extract_price_cents(payload, product.name):
\* an exception here leaves _run_product_research, and the worker of
\* research_products records the product as failed.
PriceExtract ==
    /\ price_pc = "parsing"
    /\ LET result == _extract_price_cents(price_payload)
       IN  IF result.kind = "raise"
           THEN /\ price_pc' = "raised"
                /\ UNCHANGED price_cents
           ELSE /\ price_pc' = "returned"
                /\ price_cents' = result.value
    /\ UNCHANGED price_payload
    /\ UNCHANGED <<callVars, researchVars, synthVars, workflowVars, postVars, imageVars, keyVars>>

InitPrice ==
    /\ call_idle
    /\ research_idle
    /\ synth_idle
    /\ workflow_idle
    /\ post_idle
    /\ price_idle
    /\ image_idle
    /\ key_idle

NextPrice == PriceEnter \/ PriceExtract

SpecPrice == InitPrice /\ [][NextPrice]_vars

(***************************************************************************)
(* Properties of the price extraction.                                     *)
(***************************************************************************)
OnlyPrice == price_payload.price_display = NoPrice

\* An integer price of one to four digits is taken as dollars, one of five
\* digits or more as cents.
IntegerPriceNormalized ==
    (price_pc \in {"returned", "raised"} /\ OnlyPrice
        /\ price_payload.price.kind = "int" /\ price_payload.price.value > 0)
        => /\ price_pc = "returned"
           /\ price_cents = IF price_payload.price.value <= 9999
                            THEN 100 * price_payload.price.value
                            ELSE price_payload.price.value

IntegerPriceWitness ==
    /\ price_pc = "returned"
    /\ OnlyPrice
    /\ price_payload.price = [kind |-> "int", value |-> 10000]
    /\ price_cents = 10000

\* A price that is no positive number: zero or below, a string without a
\* number in range, a float that is no number, or no number at all.
Unparseable(v) ==
    \/ v.kind \in {"int", "float", "string"} /\ v.value <= 0
    \/ v.kind \in {"text", "long_digits", "nan", "inf", "null", "bool", "list",
                   "missing"}

\* C22: an integer price of at most four digits yields a hundred times its
\* value, one of five or more digits yields its value, and a non-positive or
\* unparseable price yields zero cents and does not fail the research of
\* the product.
C22_PriceNormalized ==
    (price_pc \in {"returned", "raised"} /\ OnlyPrice)
        => /\ IntegerPriceNormalized
           /\ Unparseable(price_payload.price)
                => (price_pc = "returned" /\ price_cents = 0)

(***************************************************************************)
(* Properties of the search count and the transcript of GlmClient.call.    *)
(***************************************************************************)
\* C23: the search count GlmClient.call returns is the number of search
\* tool calls that consumed budget during the conversation, on the exit
\* without tool calls and on the exit at the iteration ceiling, whatever
\* usage the responses report.
C23_ReturnedCountIsConsumed ==
    (call_pc = "returned" /\ call_exit \in {"final", "ceiling"})
        => total_search_count = searches_used

(***************************************************************************)
(* GlmClient._post: send_request under tenacity's retry.  Every            *)
(* glm_max_retries up to MaxRetries is explored.                           *)
(***************************************************************************)
MaxRetries == 2

\* What one attempt of send_request meets: the transport raising a timeout
\* or another request error, or a response with its status and body.
AttemptOutcomes ==
    [kind : {"timeout", "request_error"}, status : {0}, body : {"none"}]
        \cup [kind : {"response"}, status : {401, 403, 429, 500}, body : {"text"}]
        \cup [kind : {"response"}, status : {200},
              body : {"payload", "bad_json", "error_body"}]

\* The exceptions of the client, of httpx and of tenacity, each with its
\* base classes up to Exception.
glm_error_bases ==
    [GlmClientError    |-> {"GlmClientError", "RuntimeError", "Exception"},
     GlmRateLimitError |-> {"GlmRateLimitError", "GlmClientError", "RuntimeError",
                            "Exception"},
     GlmTimeoutError   |-> {"GlmTimeoutError", "GlmClientError", "RuntimeError",
                            "Exception"},
     RequestError      |-> {"RequestError", "HTTPError", "Exception"},
     RetryError        |-> {"RetryError", "Exception"}]

ErrorMap == [status \in {401, 403, 429} |->
                IF status = 429 THEN "GlmRateLimitError" ELSE "GlmClientError"]

_classify_error(status_code) ==
    IF status_code \in DOMAIN ErrorMap THEN ErrorMap[status_code] ELSE "GlmClientError"

\* send_request: the exception one attempt raises, "none" when it returns
\* the payload.
send_request(outcome) ==
    IF outcome.kind = "timeout" THEN "GlmTimeoutError"
    ELSE IF outcome.kind = "request_error" THEN "RequestError"
    ELSE IF outcome.status >= 400
    THEN IF outcome.status = 429 THEN "GlmRateLimitError"
         ELSE _classify_error(outcome.status)
    ELSE IF outcome.body = "bad_json" THEN "GlmClientError"
    ELSE IF outcome.body = "error_body" THEN "GlmClientError"
    ELSE "none"

\* A retry on every error of the client.
retry_if_client_error(exc) ==
    \E cls \in {"RequestError", "GlmClientError"} : cls \in glm_error_bases[exc]

\* retry_if_exception_type((httpx.RequestError, GlmRateLimitError))
retry_if_exception_type(exc) ==
    \E cls \in {"RequestError", "GlmRateLimitError"} : cls \in glm_error_bases[exc]

\* stop_after_attempt((glm_max_retries or 0) + 1)
stop_after_attempt(max_retries, attempt_number) == attempt_number >= max_retries + 1

RECURSIVE pow2(_)
pow2(n) == IF n = 0 THEN 1 ELSE 2 * pow2(n - 1)

\* wait_exponential(multiplier=0.5, min=0.5, max=2), in half seconds.
wait_exponential(attempt_number) == Max(1, Min(pow2(attempt_number - 1), 4))

\* _post is entered with the payload of one request.
PostEnter ==
    /\ post_pc = "idle"
    /\ post_pc' = "sending"
    /\ UNCHANGED <<glm_max_retries, post_attempts, post_wait, post_error>>
    /\ UNCHANGED <<callVars, researchVars, synthVars, workflowVars, priceVars, imageVars, keyVars>>

\* One attempt of send_request and tenacity's decision on it: the payload is
\* returned, an exception outside the retried types is raised as it is, a
\* retried one either ends the attempts (RetryError, which _post turns into
\* GlmClientError) or is slept on.
PostSend ==
    /\ post_pc = "sending"
    /\ \E outcome \in AttemptOutcomes :
        LET exc == send_request(outcome)
            attempt_number == Len(post_attempts) + 1
        IN /\ post_attempts' = Append(post_attempts, outcome)
           /\ IF exc = "none"
              THEN /\ post_pc' = "returned"
                   /\ UNCHANGED <<post_error, post_wait>>
              ELSE IF ~retry_if_exception_type(exc)
              THEN /\ post_pc' = "raised"
                   /\ post_error' = exc
                   /\ UNCHANGED post_wait
              ELSE IF stop_after_attempt(glm_max_retries, attempt_number)
              THEN /\ post_pc' = "raised"
                   /\ post_error' = "GlmClientError"
                   /\ UNCHANGED post_wait
              ELSE /\ post_pc' = "backoff"
                   /\ post_wait' = wait_exponential(attempt_number)
                   /\ UNCHANGED post_error
    /\ UNCHANGED glm_max_retries
    /\ UNCHANGED <<callVars, researchVars, synthVars, workflowVars, priceVars, imageVars, keyVars>>

\* The sleep is over: the next attempt starts.
PostBackoff ==
    /\ post_pc = "backoff"
    /\ post_pc' = "sending"
    /\ UNCHANGED <<glm_max_retries, post_attempts, post_wait, post_error>>
    /\ UNCHANGED <<callVars, researchVars, synthVars, workflowVars, priceVars, imageVars, keyVars>>

InitPost ==
    /\ call_idle
    /\ research_idle
    /\ synth_idle
    /\ workflow_idle
    /\ price_idle
    /\ image_idle
    /\ key_idle
    /\ glm_max_retries \in 0..MaxRetries
    /\ post_pc = "idle"
    /\ post_attempts = <<>>
    /\ post_wait = 0
    /\ post_error = "none"

NextPost == PostEnter \/ PostSend \/ PostBackoff

SpecPost == InitPost /\ [][NextPost]_vars

(***************************************************************************)
(* Properties of GlmClient._post.                                          *)
(***************************************************************************)
LastAttempt == post_attempts[Len(post_attempts)]

\* C27: a transport timeout of a chat-completion request is retried, with a
\* sleep that grows between the attempts, until glm_max_retries + 1 attempts
\* have been made, and only then surfaces as an error.
C27_TimeoutRetried ==
    (post_pc = "raised" /\ LastAttempt.kind = "timeout")
        => Len(post_attempts) = glm_max_retries + 1

RateLimited(outcome) == outcome.kind = "response" /\ outcome.status = 429

TransportError(outcome) == outcome.kind = "request_error"

OtherProviderError(outcome) ==
    \/ outcome.kind = "timeout"
    \/ outcome.kind = "response" /\ outcome.status \in {401, 403, 500}
    \/ outcome.kind = "response" /\ outcome.body \in {"bad_json", "error_body"}

\* C28: a rate-limit response and a transport error are retried, the request
\* is attempted at most glm_max_retries + 1 times, and when the last of
\* these attempts fails the same way a GlmClientError is raised; every
\* other provider error (a timeout, 401, 403, another HTTP error, a body
\* that is no JSON or carries an error) is raised after the first attempt
\* that meets it, with no retry.
C28_RetryOnlyRateLimitAndTransport ==
    /\ Len(post_attempts) <= glm_max_retries + 1
    /\ \A i \in 1..(Len(post_attempts) - 1) :
          RateLimited(post_attempts[i]) \/ TransportError(post_attempts[i])
    /\ (Len(post_attempts) > 0 /\ (RateLimited(LastAttempt) \/ TransportError(LastAttempt)))
          => IF Len(post_attempts) < glm_max_retries + 1
             THEN post_pc \in {"backoff", "sending"} /\ post_error = "none"
             ELSE post_pc = "raised" /\ "GlmClientError" \in glm_error_bases[post_error]
    /\ (Len(post_attempts) > 0 /\ OtherProviderError(LastAttempt))
          => post_pc = "raised" /\ "GlmClientError" \in glm_error_bases[post_error]

C28_Witness ==
    /\ post_pc = "raised"
    /\ glm_max_retries >= 1
    /\ Len(post_attempts) = glm_max_retries + 1
    /\ RateLimited(post_attempts[1])
    /\ TransportError(LastAttempt)
    /\ post_error = "GlmClientError"

\* The tool-role messages among the messages a step appends.
ToolMessagesOf(ms) == {k \in DOMAIN ms : ms[k].role = "tool"}

\* C29: a tool call that raises aborts neither the other tool calls of its
\* iteration nor the conversation: only _post ends a conversation with an
\* exception, every task of the iteration has run when the results are
\* folded, the failure is answered with an error-shaped result, and for
\* every tool call of the response exactly one tool-role message is
\* appended.
C29_ToolFailuresContained ==
    /\ [](call_pc = "raised" => call_exit = "post_raised")
    /\ [][(call_pc = "tools" /\ call_pc' # "tools")
            => /\ call_pc' \in {"post", "returned"}
               /\ \A i \in DOMAIN task_entries : task_entries[i].status # "pending"
               /\ Cardinality(ToolMessagesOf(messages')) = Len(task_entries)
               /\ \A i \in DOMAIN task_entries :
                     /\ Cardinality({k \in ToolMessagesOf(messages') :
                                        messages'[k].tool_call = i}) = 1
                     /\ task_entries[i].status = "exc"
                           => \E k \in ToolMessagesOf(messages') :
                                 /\ messages'[k].tool_call = i
                                 /\ messages'[k].content = "exception"]_vars

C29_Witness ==
    /\ call_pc \in {"post", "returned"}
    /\ \E j, k \in ToolMessagesOf(messages) :
          /\ messages[j].content = "exception"
          /\ messages[k].content = "result"

\* C30: the tool-role messages of an iteration are appended in the order of
\* the tool calls in the response, each under the id of its own tool call
\* and with the result of that call, whatever order the tasks completed
\* in: the appended messages are a function of the response and the
\* results alone.
C30_TranscriptInCallOrder ==
    [][(call_pc = "tools" /\ call_pc' # "tools")
            => /\ Len(messages') >= Len(messages) + Len(task_entries)
               /\ \A i \in DOMAIN task_entries :
                     LET message == messages'[Len(messages) + i]
                     IN  /\ message.role = "tool"
                         /\ message.tool_call = i
                         /\ message.content =
                               IF task_entries[i].immediate THEN "budget_exhausted"
                               ELSE IF task_entries[i].status = "exc" THEN "exception"
                               ELSE "result"]_vars

\* Both tasks of an iteration are done, the second before the first, with
\* different results, and the fold is next.
C30_Witness ==
    /\ call_pc = "tools"
    /\ Len(task_entries) = 2
    /\ task_entries[2].finished = 1
    /\ task_entries[1].finished = 2
    /\ task_entries[1].status = "exc"
    /\ task_entries[2].status = "ok"

\* The reminders among the messages of the transcript's tail.
RemindersOf(ms) ==
    {k \in DOMAIN ms : ms[k].content \in {"reminder_remaining", "reminder_exhausted"}}

\* The fold of one iteration appended exactly one reminder, after the tool
\* results: the one for an exhausted budget when no search remains, the one
\* stating what remains otherwise.
ReminderAppended ==
    /\ Cardinality(RemindersOf(messages')) = 1
    /\ RemindersOf(messages') = {Len(messages')}
    /\ messages'[Len(messages')].role = "assistant"
    /\ messages'[Len(messages')].content =
          IF max_searches - searches_used' <= 0 THEN "reminder_exhausted"
          ELSE "reminder_remaining"

\* With searches enabled every iteration that dispatched tool calls ends in
\* one reminder.
ReminderWhenSearching ==
    [][(call_pc = "tools" /\ call_pc' # "tools" /\ max_searches > 0)
            => ReminderAppended]_vars

\* C31: after every iteration in which tool calls were dispatched exactly
\* one reminder is appended, after the tool results and before the next
\* provider request: the one for an exhausted budget if and only if the
\* remaining search budget is zero, the one stating the remaining budget
\* otherwise.
C31_ReminderAfterTools ==
    [][(call_pc = "tools" /\ call_pc' # "tools") => ReminderAppended]_vars

(***************************************************************************)
(* Properties of the product cache in research_products.                   *)
(***************************************************************************)
\* C32: with use_cache a worker whose product cache lookup hits returns the
\* cached product and is done: it takes no permit of the semaphore, makes
\* no provider call, and adds nothing to the api_calls of the stage.
C32_CacheHitFree ==
    /\ [](\A k \in DOMAIN successes :
            successes[k].from_cache
                => /\ use_cache
                   /\ worker_pc[successes[k].product] = "done"
                   /\ worker_searches[successes[k].product] = 0)
    /\ [][cache_hits' = cache_hits + 1
            => /\ semaphore' = semaphore
               /\ searches_consumed' = searches_consumed
               /\ total_searches' = total_searches
               /\ failures' = failures]_vars
    /\ [](research_pc = "returned"
            => research_outcome.api_calls
                  = SumOver({successes[k].product :
                               k \in {j \in DOMAIN successes : ~successes[j].from_cache}},
                            worker_searches)
                    + Len(failures))

\* A run returned one product from the cache next to one researched with a
\* search: the stage reports the one call.
C32_Witness ==
    /\ research_pc = "returned"
    /\ use_cache
    /\ cache_hits = 1
    /\ \E k \in DOMAIN successes :
          ~successes[k].from_cache /\ worker_searches[successes[k].product] = 1
    /\ failures = <<>>
    /\ research_outcome.api_calls = 1

(***************************************************************************)
(* Image resolution of a research answer (steps.py, _run_product_research  *)
(* 545-596, with _proxy_image_url, _fetch_open_graph_image and             *)
(* _run_image_search).                                                     *)
(*                                                                         *)
(* A URL is the sequence of the pieces of its text: the scheme, the host,  *)
(* then the rest.  The empty sequence is the missing URL (None or "").     *)
(***************************************************************************)
ImageProductIds == {"p1", "p2"}

ExternalHttps == <<"https", "example.com", "/a.png">>

ExternalHttp == <<"http", "example.com", "/a.png">>

InternalImage == <<"https", "cdn.comparoo.com", "/images/a.png">>

NotHttpImage == <<"ftp", "example.com", "/a.png">>

image_placeholder(product_id) ==
    <<"https", "cdn.comparoo.com", "/placeholder/", product_id, ".png">>

is_http_url(url) == url # <<>> /\ url[1] \in {"http", "https"}

netloc(url) == IF Len(url) >= 2 THEN url[2] ELSE ""

internal_hosts == {"comparoo.com", "cdn.comparoo.com"}

\* _proxy_image_url: the host and everything after it become the target of
\* the weserv query, with "ssl:" in front for an https address; the missing
\* URL, a URL without a host and a URL of comparoo.com come back unchanged.
_proxy_image_url(url) ==
    IF url = <<>> THEN url
    ELSE IF netloc(url) = "" THEN url
    ELSE IF netloc(url) \in internal_hosts THEN url
    ELSE <<"https", "images.weserv.nl", "/?url=">>
            \o (IF url[1] = "https" THEN <<"ssl:">> ELSE <<>>)
            \o Tail(url)

\* What each source holds, by the name of the case.
payload_image(case) ==
    CASE case.payload = "missing" -> <<>>
      [] case.payload = "not_http" -> NotHttpImage
      [] case.payload = "https" -> ExternalHttps
      [] case.payload = "http" -> ExternalHttp
      [] case.payload = "internal" -> InternalImage

\* _fetch_open_graph_image: an http(s) URL or None, never an exception.
_fetch_open_graph_image(case) ==
    CASE case.og = "none" -> <<>>
      [] case.og = "https" -> ExternalHttps
      [] case.og = "internal" -> InternalImage

\* _run_image_search: raises what GlmClient.call raises; without choices,
\* with an empty or unparseable answer, or with an image_url that is missing
\* or not http(s), the placeholder; otherwise the answer's URL, proxied.
_run_image_search(case) ==
    CASE case.search = "raises" -> [raised |-> TRUE, url |-> <<>>]
      [] case.search = "no_url" ->
            [raised |-> FALSE, url |-> image_placeholder(case.product_id)]
      [] case.search = "https" ->
            [raised |-> FALSE, url |-> _proxy_image_url(ExternalHttps)]
      [] case.search = "http" ->
            [raised |-> FALSE, url |-> _proxy_image_url(ExternalHttp)]
      [] case.search = "internal" ->
            [raised |-> FALSE, url |-> _proxy_image_url(InternalImage)]

\* An image search that runs whatever the setting says.
use_image_search_always(enabled) == TRUE

\* elif settings.image_search_enabled (steps.py:555)
use_image_search(enabled) == enabled

\* The fallback chain of steps.py:545-572: the URL it settles on, the sources
\* it consulted and what it added to search_steps.
image_chain(case) ==
    LET payload == payload_image(case)
        og == _fetch_open_graph_image(case)
        found == _run_image_search(case)
        placeholder == image_placeholder(case.product_id)
    IN  IF is_http_url(payload)
        THEN [url |-> payload, tried |-> <<"payload">>, steps |-> 0]
        ELSE IF og # <<>>
        THEN [url |-> og, tried |-> <<"payload", "open_graph">>, steps |-> 0]
        ELSE IF use_image_search(case.enabled)
        THEN IF found.raised
             THEN [url |-> placeholder,
                   tried |-> <<"payload", "open_graph", "image_search",
                               "placeholder">>,
                   steps |-> 0]
             ELSE [url |-> found.url,
                   tried |-> <<"payload", "open_graph", "image_search">>,
                   steps |-> 1]
        ELSE [url |-> placeholder,
              tried |-> <<"payload", "open_graph", "placeholder">>,
              steps |-> 0]

\* The closing normalisation of steps.py:583-596: a URL that is missing or
\* not http(s) becomes the placeholder, any other goes through the proxy.
image_final(url, product_id) ==
    IF url = <<>> THEN image_placeholder(product_id)
    ELSE IF ~is_http_url(url) THEN image_placeholder(product_id)
    ELSE _proxy_image_url(url)

ImageCases ==
    [product_id : ImageProductIds,
     payload : {"missing", "not_http", "https", "http", "internal"},
     og : {"none", "https", "internal"},
     enabled : BOOLEAN,
     search : {"raises", "no_url", "https", "http", "internal"}]

ImageEnter ==
    /\ image_pc = "idle"
    /\ \E case \in ImageCases : image_case' = case
    /\ image_pc' = "resolving"
    /\ UNCHANGED <<image_tried, image_url, image_search_steps>>
    /\ UNCHANGED <<callVars, researchVars, synthVars, workflowVars, postVars,
                   priceVars, keyVars>>

ImageResolve ==
    /\ image_pc = "resolving"
    /\ LET chain == image_chain(image_case)
       IN  /\ image_tried' = chain.tried
           /\ image_search_steps' = chain.steps
           /\ image_url' = image_final(chain.url, image_case.product_id)
    /\ image_pc' = "resolved"
    /\ UNCHANGED image_case
    /\ UNCHANGED <<callVars, researchVars, synthVars, workflowVars, postVars,
                   priceVars, keyVars>>

InitImage ==
    /\ call_idle
    /\ research_idle
    /\ synth_idle
    /\ workflow_idle
    /\ post_idle
    /\ price_idle
    /\ image_idle
    /\ key_idle

NextImage == ImageEnter \/ ImageResolve

SpecImage == InitImage /\ [][NextImage]_vars

\* The address a URL ends up fetching, with every proxy in front taken off.
RECURSIVE image_address(_)
image_address(url) ==
    IF Len(url) >= 3 /\ url[2] = "images.weserv.nl"
    THEN image_address(<<IF Len(url) >= 4 /\ url[4] = "ssl:"
                         THEN "https" ELSE "http">>
                       \o (IF Len(url) >= 4 /\ url[4] = "ssl:"
                           THEN SubSeq(url, 5, Len(url))
                           ELSE SubSeq(url, 4, Len(url))))
    ELSE url

ImageOrder == <<"payload", "open_graph", "image_search", "placeholder">>

ImageOrderWithoutSearch == <<"payload", "open_graph", "placeholder">>

IsPrefixOf(s, t) == Len(s) <= Len(t) /\ s = SubSeq(t, 1, Len(s))

ImageResolved == image_pc = "resolved"

image_search_answer(case) ==
    CASE case.search = "https" -> ExternalHttps
      [] case.search = "http" -> ExternalHttp
      [] case.search = "internal" -> InternalImage
      [] OTHER -> image_placeholder(case.product_id)

\* The URL the fallback chain resolved, as its source gave it.
image_resolved_url(case) ==
    IF is_http_url(payload_image(case)) THEN payload_image(case)
    ELSE IF _fetch_open_graph_image(case) # <<>>
    THEN _fetch_open_graph_image(case)
    ELSE IF case.enabled /\ ~_run_image_search(case).raised
    THEN image_search_answer(case)
    ELSE image_placeholder(case.product_id)

ProxiedOnce ==
    /\ image_url = _proxy_image_url(image_resolved_url(image_case))
    /\ netloc(image_resolved_url(image_case)) \in internal_hosts
        => image_url = image_resolved_url(image_case)

\* On the paths that end at the payload, at the Open Graph image or at the
\* placeholder the URL goes through the proxy once.
ProxiedOnceWithoutSearch ==
    (ImageResolved /\ "image_search" # image_tried[Len(image_tried)])
        => ProxiedOnce

\* C34: on every path of the fallback chain the image URL of the extraction
\* is the proxy rewrite of the URL that was resolved, applied to that URL
\* itself, and a URL of the service's own domain, the placeholder included,
\* is returned as it is.
C34_ProxiedExactlyOnce == ImageResolved => ProxiedOnce

(***************************************************************************)
(* The comparison key of compare_products (orchestrator.py:30-32, 64-65)   *)
(* and the key of the admin invalidation (endpoints.py:258-262, 343-380).  *)
(*                                                                         *)
(* A text is a sequence of characters over a small alphabet with a lower   *)
(* case letter, its upper case and the blank; None is a value of its own.  *)
(***************************************************************************)
MaxText == 2

Characters == {"a", "A", " "}

None == <<"None">>

TextsOfLength(n) == [1..n -> Characters]

Texts == UNION {TextsOfLength(n) : n \in 0..MaxText}

\* CompareRequest: category of at least two characters, constraints a text
\* or None, neither normalised by the schema.
KeyCategories == {t \in Texts : Len(t) >= 2}

KeyConstraints == Texts \cup {None}

KeyRequests == [category : KeyCategories, constraints : KeyConstraints]

\* str.lower
text_lower(t) == [i \in 1..Len(t) |-> IF t[i] = "A" THEN "a" ELSE t[i]]

RECURSIVE lstrip(_)
lstrip(t) == IF t # <<>> /\ Head(t) = " " THEN lstrip(Tail(t)) ELSE t

RECURSIVE rstrip(_)
rstrip(t) ==
    IF t # <<>> /\ t[Len(t)] = " " THEN rstrip(SubSeq(t, 1, Len(t) - 1)) ELSE t

\* str.strip
text_strip(t) == rstrip(lstrip(t))

\* constraints or ''
or_empty(constraints) ==
    IF constraints = None \/ constraints = <<>> THEN <<>> ELSE constraints

\* hashlib.sha256(...).hexdigest(): one digest per text, two texts never
\* the same digest.
sha256_hash(text) == <<"sha256">> \o text

\* _hash_query(category, constraints)
_hash_query(category, constraints) ==
    sha256_hash(category \o <<"|">> \o or_empty(constraints))

\* compare_products: _hash_query(category.lower().strip(), constraints)
stored_comparison_key(req) ==
    <<"comparison:">>
        \o _hash_query(text_strip(text_lower(req.category)),
                       req.constraints)

\* generate_query_cache_key(category, constraints)
generate_query_cache_key(category, constraints) ==
    <<"comparison:">>
        \o sha256_hash(text_strip(text_lower(category)) \o <<"|">>
                       \o text_strip(text_lower(or_empty(constraints))))

\* admin_invalidate_query_cache on a body that names the request: category
\* is str(...).strip(), constraints str(...).strip() or None, a request
\* without constraints leaving the field out.
invalidated_comparison_key(req) ==
    LET category == text_strip(req.category)
        stripped == text_strip(or_empty(req.constraints))
        constraints == IF stripped = <<>> THEN None ELSE stripped
    IN  generate_query_cache_key(category, constraints)

KeyEnter ==
    /\ key_pc = "idle"
    /\ \E req \in KeyRequests : key_request' = req
    /\ key_pc' = "requested"
    /\ UNCHANGED <<key_stored, key_invalidated, key_cache>>
    /\ UNCHANGED <<callVars, researchVars, synthVars, workflowVars, postVars,
                   priceVars, imageVars>>

\* compare_products stores the comparison of the request under its key.
KeyStore ==
    /\ key_pc = "requested"
    /\ key_stored' = stored_comparison_key(key_request)
    /\ key_cache' = key_cache \cup {stored_comparison_key(key_request)}
    /\ key_pc' = "stored"
    /\ UNCHANGED <<key_request, key_invalidated>>
    /\ UNCHANGED <<callVars, researchVars, synthVars, workflowVars, postVars,
                   priceVars, imageVars>>

\* admin_invalidate_query_cache for the same category and constraints.
KeyInvalidate ==
    /\ key_pc = "stored"
    /\ key_invalidated' = invalidated_comparison_key(key_request)
    /\ key_cache' = key_cache \ {invalidated_comparison_key(key_request)}
    /\ key_pc' = "invalidated"
    /\ UNCHANGED <<key_request, key_stored>>
    /\ UNCHANGED <<callVars, researchVars, synthVars, workflowVars, postVars,
                   priceVars, imageVars>>

InitKey ==
    /\ call_idle
    /\ research_idle
    /\ synth_idle
    /\ workflow_idle
    /\ post_idle
    /\ price_idle
    /\ image_idle
    /\ key_idle

NextKey == KeyEnter \/ KeyStore \/ KeyInvalidate

SpecKey == InitKey /\ [][NextKey]_vars

\* The keys agree for the requests whose constraints are already lower case
\* without blanks around them (or absent).
NormalConstraints ==
    text_strip(text_lower(or_empty(key_request.constraints)))
        = or_empty(key_request.constraints)

InvalidationMatchesNormalConstraints ==
    (key_pc = "invalidated" /\ NormalConstraints)
        => (key_invalidated = key_stored /\ key_stored \notin key_cache)

\* C39: for every category and constraints the key the admin invalidation
\* deletes is the key under which compare_products stored the comparison of
\* that request, so after the invalidation the entry is gone and the next
\* compare_products with use_cache is a miss.
C39_InvalidationKeyMatches ==
    key_pc = "invalidated"
        => (key_invalidated = key_stored /\ key_stored \notin key_cache)

PermitsOut == extraction_max_concurrency - semaphore

\* The permits that are out are exactly those of the workers inside the
\* section.
PermitsHeldByLiveWorkers ==
    research_pc \in {"running", "returned", "cancelled"}
        => PermitsOut = Cardinality(InLiveSection)

WaitingWorker(i) == i \in DOMAIN worker_pc /\ worker_pc[i] = "waiting"

PastSemaphore(i) ==
    i \in DOMAIN worker_pc /\ worker_pc[i] \in {"live", "storing", "done"}

ResearchEnded == research_pc \in {"returned", "cancelled"}

\* C36: a research worker gives its permit back however it leaves the
\* section (the research stored, an exception recorded, the task cancelled):
\* the permits that are out are those of the workers inside the section, so
\* with no worker inside all extraction_max_concurrency permits are
\* available; every worker that waits for the semaphore gets past it unless
\* the run is cancelled first, and a running stage ends.
C36_PermitsReleased ==
    /\ []PermitsHeldByLiveWorkers
    /\ [](InLiveSection = {} /\ research_pc # "idle"
            => semaphore = extraction_max_concurrency)
    /\ \A i \in 1..MaxCandidates :
          WaitingWorker(i) ~> (PastSemaphore(i) \/ research_pc = "cancelled")
    /\ (research_pc = "running") ~> ResearchEnded

\* More candidates than permits, one research failed and one stored, and
\* the stage returned with every permit back.
C36_Witness ==
    /\ research_pc = "returned"
    /\ products > extraction_max_concurrency
    /\ failures # <<>>
    /\ \E k \in DOMAIN successes : ~successes[k].from_cache
    /\ semaphore = extraction_max_concurrency

\* The candidates the current run researched and stored.
StoredCandidates ==
    {successes[k].product : k \in {j \in DOMAIN successes : ~successes[j].from_cache}}

DiscoveryRejected ==
    /\ workflow_pc = "discovery_call"
    /\ workflow_pc' = "raised"
    /\ workflow_error' \in {"ValueError", "ValidationError", "GlmClientError"}

WorkflowRaises == workflow_pc # "raised" /\ workflow_pc' = "raised"

WorkerFails == Len(failures') = Len(failures) + 1

ProductEntryWritten == product_cache' # product_cache

\* C38: a stage that fails leaves the cache as it was.  The step in which a
\* discovery is rejected (no SUCCESS answer, invalid JSON, invalid metrics,
\* no products) changes no metrics entry; the step in which a research
\* worker fails changes no product entry, a product entry is written only
\* by the step that adds the candidate to the successes, and no candidate
\* that failed is among those stored; the step in which compare_products
\* raises changes no comparison entry.
C38_FailedStageWritesNothing ==
    /\ [][DiscoveryRejected => metrics_cache' = metrics_cache]_vars
    /\ [][WorkerFails => product_cache' = product_cache]_vars
    /\ [][ProductEntryWritten =>
            /\ failures' = failures
            /\ Len(successes') = Len(successes) + 1
            /\ ~successes'[Len(successes')].from_cache
            /\ DOMAIN product_cache' =
                 DOMAIN product_cache \cup {successes'[Len(successes')].product}]_vars
    /\ [](FailedCandidates \cap StoredCandidates = {})
    /\ [][WorkflowRaises => comparison_cache' = comparison_cache]_vars

\* A run on an enabled cache in which one research failed and another was
\* stored: the entry of the stored one is there, none for the failed one.
C38_Witness ==
    /\ research_pc = "returned"
    /\ cache_enabled
    /\ research_runs = 1
    /\ FailedCandidates # {}
    /\ StoredCandidates # {}
    /\ DOMAIN product_cache = StoredCandidates

\* glm_discovery handed back a candidate list it took from the metrics
\* cache.
ServedFromMetricsCache == discovery_reply.kind = "cached"

\* An entry is served only to a request with use_cache.
ServedOnlyWithUseCache ==
    ServedFromMetricsCache => request.use_cache

\* C37: with use_cache, the candidate list glm_discovery returns for a
\* category and constraints comes from a discovery made for the same
\* constraints: a metrics entry produced for (category, c1) is never served
\* to a request for (category, c2) with c2 other than c1.
C37_MetricsEntryMatchesConstraints ==
    ServedFromMetricsCache => discovery_reply.written_for = request.constraints

\* The only conversation a compare_products run gets to is the one of
\* discovery (research is never started, see C9), so the searches executed
\* in the run are those its conversation executed.
SearchesExecutedInRun ==
    IF workflow_pc = "discovery_call" THEN search_executed ELSE 0

\* With a search budget the conversation of discovery keeps within it.
SearchesWithinDiscoveryBudget ==
    a1_search_budget > 0 => SearchesExecutedInRun <= a1_search_budget

\* C35: in a compare_products run the search tool calls actually executed,
\* over discovery and all research workers, never number more than
\* max_api_calls_per_comparison.
C35_ExecutedSearchesWithinBudget ==
    SearchesExecutedInRun <= max_api_calls_per_comparison

====
